---- MODULE Spec2Model ----
(***************************************************************************)
(* Model of uzed_iot.c: the MicroZed IOT sensor task.  One FreeRTOS task   *)
(* (prvMQTTConnectAndPublishTask) starts the system, then samples the      *)
(* barometer, the PL thermocouple and the hygrometer once per period and   *)
(* publishes every reading or diagnostic through prvPublishTopic.          *)
(*                                                                         *)
(* The state is the System struct, the bus semaphore, the task's position  *)
(* (pc) and the locals that live across a polling loop.  The variables     *)
(* ev, pubs and the op* ones are history variables: they record what the   *)
(* code did and never influence it.                                        *)
(***************************************************************************)
EXTENDS Integers, Sequences, FiniteSets, TLC

VARIABLES
    INCLUDE_vTaskSuspend, \* build option: TRUE = a take with portMAX_DELAY never times out
    pSystem,              \* the System struct (tSystem of the task)
    xIicSemaphore,        \* "NULL" | "empty" | "avail"
    holds,                \* history: the task's last take obtained the semaphore
    ulCriticalNesting,    \* portENTER_CRITICAL depth of the task
    pc,                   \* position of the task
    iTimeout,             \* loop counter (iTimeout / xTimeout)
    b,                    \* u8 b of the running operation: <<>> uninitialised, <<v>> otherwise
    pbBuf,                \* status+data block: <<>> uninitialised, else the status byte and the data bytes
    pqRxBuffer,           \* thermocouple receive words of the last sample, <<>> outside it
    ev,                   \* history: what the last step did, in order
    pubs,                 \* history: messages handed to the broker by the running operation
    op,                   \* history: the running (or last returned) operation
    rcIn,                 \* history: pSystem.rc when the operation was entered
    failed,               \* history: the operation aborted on a non-success result code
    dieRc,                \* history: the result code at the first abort
    busAfterFail,         \* history: a bus transaction was issued after the first abort
    hwFault,              \* history: the operation's own hardware misbehaved in this call
    timedOut,             \* history: name of the polling loop that ran out of retries, or ""
    nPolls,               \* history: status reads done by the current polling loop
    steps                 \* history: the start-up steps that returned, in order, each with its outcome

vars == <<INCLUDE_vTaskSuspend, pSystem, xIicSemaphore, holds, ulCriticalNesting, pc,
          iTimeout, b, pbBuf, pqRxBuffer, ev, pubs, op, rcIn, failed, dieRc,
          busAfterFail, hwFault, timedOut, nPolls, steps>>

(***************************************************************************)
(* Program constants                                                       *)
(***************************************************************************)
XST_SUCCESS == 0
XST_FAILURE == 1

BAROMETER_WHO_AM_I_VALUE == 189         \* 0xBD
HYGROMETER_WHO_AM_I_VALUE == 188        \* 0xBC

BAROMETER_BFLD_SWRESET == 4
BAROMETER_BFLD_BOOT == 128
BAROMETER_BFLD_ONE_SHOT == 1
BAROMETER_BFLD_P_DA == 2
BAROMETER_BFLD_T_DA == 1
HYGROMETER_BFLD_BOOT == 128
HYGROMETER_BFLD_ONE_SHOT == 1
HYGROMETER_BFLD_H_DA == 2
HYGROMETER_BFLD_T_DA == 1

\* retry bounds of the polling loops
BaroSwResetRetries == 100
BaroBootRetries == 100
BaroOneShotRetries == 50
BaroDataRetries == 50
HygroBootRetries == 1000
HygroOneShotRetries == 10000
HygroDataRetries == 50

CalibrationLen == 16
BaroBlockLen == 6
HygroBlockLen == 5
SpiByteCount == 4

(***************************************************************************)
(* Bounds of the model                                                     *)
(***************************************************************************)
MaxCrit == 1        \* critical-section depth up to which a failing register read is explored
MaxData == 1        \* sensor data blocks are drawn from 0..MaxData

\* the topics of the TOPIC enum, in order, without TOPIC_LAST
Topics == <<"TOPIC_BAROMETER_PRESSURE", "TOPIC_BAROMETER_TEMPERATURE",
            "TOPIC_BAROMETER_STATUS", "TOPIC_THERMOCOUPLE_TEMPERATURE",
            "TOPIC_THERMOCOUPLE_BOARD_TEMPERATURE", "TOPIC_THERMOCOUPLE_STATUS",
            "TOPIC_HYGROMETER_RELATIVE_HUMIDITY",
            "TOPIC_HYGROMETER_HUMIDITY_SENSOR_TEMPERATURE",
            "TOPIC_HYGROMETER_STATUS", "TOPIC_SYSTEM_STATUS">>

\* what MQTT_AGENT_Publish can return: success, or one of the other codes, all
\* of which take the same branch at line 664
PubRets == {"eMQTTAgentSuccess", "eMQTTAgentFailure"}

\* result codes a driver initialisation can return
DriverRcs == {XST_SUCCESS, XST_FAILURE}

Bytes == 0..255

\* u8 & single-bit mask # 0
HasBit(v, mask) == (v \div mask) % 2 = 1

(***************************************************************************)
(* The machine state the operators below transform.                       *)
(***************************************************************************)
Cur == [sys |-> pSystem, sem |-> xIicSemaphore, holds |-> holds,
        crit |-> ulCriticalNesting, ev |-> <<>>, pubs |-> pubs, op |-> op,
        rcIn |-> rcIn, failed |-> failed, dieRc |-> dieRc,
        busAfterFail |-> busAfterFail, hwFault |-> hwFault, steps |-> steps]

Commit(m) ==
    /\ pSystem' = m.sys
    /\ xIicSemaphore' = m.sem
    /\ holds' = m.holds
    /\ ulCriticalNesting' = m.crit
    /\ ev' = m.ev
    /\ pubs' = m.pubs
    /\ op' = m.op
    /\ rcIn' = m.rcIn
    /\ failed' = m.failed
    /\ dieRc' = m.dieRc
    /\ busAfterFail' = m.busAfterFail
    /\ hwFault' = m.hwFault
    /\ steps' = m.steps

\* an entry of ev
E(k, topic, fmt, vals, n, want, flag) ==
    [k |-> k, topic |-> topic, fmt |-> fmt, vals |-> vals, n |-> n, want |-> want,
     flag |-> flag]

Log(m, e) == [m EXCEPT !.ev = Append(m.ev, e)]

\* history only: a step of StartSystem has returned; ok = what StartSystem
\* tests after it reported success
Did(m, name, ok) == [m EXCEPT !.steps = Append(m.steps, [step |-> name, ok |-> ok])]

\* history only: a sensor operation is entered
Enter(m, name) ==
    [m EXCEPT !.op = name, !.rcIn = m.sys.rc, !.failed = FALSE, !.dieRc = XST_SUCCESS,
              !.busAfterFail = FALSE, !.hwFault = FALSE, !.pubs = <<>>]

\* the steps of StartSystem whose outcome it tests, in program order
StartOrder == <<"XGpioPs_CfgInitialize", "xSemaphoreCreateBinary", "XIic_CfgInitialize",
                "XIic_Start", "prvCreateClientAndConnectToBroker", "StartBarometer",
                "StartPLTempSensor", "StartHygrometer">>

\* the history after the first n steps returned with success
Returned(n) == [i \in 1..n |-> [step |-> StartOrder[i], ok |-> TRUE]]

SetErr(m, rc, pcErr) == [m EXCEPT !.sys.rc = rc, !.sys.pcErr = pcErr]

(***************************************************************************)
(* BlinkLed: nothing unless the GPIO instance is ready.                    *)
(***************************************************************************)
BlinkLed(m, xCount) ==
    IF ~m.sys.gpio_IsReady THEN m
    ELSE Log(m, E("BlinkLed", "", "", <<>>, xCount, xCount, FALSE))

(***************************************************************************)
(* prvPublishTopic: a no-op without a broker handle; else one              *)
(* MQTT_AGENT_Publish, and one blink when that did not succeed.  ret is    *)
(* what the broker client returns.  The ev entry is the call: flag = the   *)
(* broker was called, n = blinks.                                          *)
(***************************************************************************)
\* the eTopic column of pTopicInfo, lines 291-303: one entry per topic, then the
\* terminator
pTopicInfo == Topics \o <<"TOPIC_LAST">>

\* GetTopicInfo, lines 545-558: the index of the first entry before the
\* terminator that carries eTopic.  When the scan reaches the terminator,
\* configASSERT( pdTRUE ) passes and NULL (0) is returned to the caller.
RECURSIVE ScanTopicInfo(_, _)
ScanTopicInfo(i, eTopic) ==
    IF pTopicInfo[i] = "TOPIC_LAST" THEN 0
    ELSE IF pTopicInfo[i] = eTopic THEN i
    ELSE ScanTopicInfo(i + 1, eTopic)

GetTopicInfo(eTopic) == ScanTopicInfo(1, eTopic)

\* a variant without the test of the handle
prvPublishTopic_NoNullCheck(m, eTopic, pcFmt, vals, ret) ==
    LET msg == [topic |-> eTopic, fmt |-> pcFmt, vals |-> vals, ret |-> ret,
                pTI |-> GetTopicInfo(eTopic)]
        m1 == [m EXCEPT !.pubs = Append(m.pubs, msg)]
        blink == ret # "eMQTTAgentSuccess" /\ m.sys.gpio_IsReady
        m2 == Log(m1, E("prvPublishTopic", eTopic, pcFmt, vals, IF blink THEN 1 ELSE 0, 1, TRUE))
    IN  IF ret # "eMQTTAgentSuccess" THEN BlinkLed(m2, 1) ELSE m2

\* a variant that hands the message to the broker a second time when the
\* first attempt did not succeed
prvPublishTopic_Retry(m, eTopic, pcFmt, vals, ret) ==
    IF ~m.sys.xMQTTHandle
    THEN Log(m, E("prvPublishTopic", eTopic, pcFmt, vals, 0, 0, FALSE))
    ELSE LET msg == [topic |-> eTopic, fmt |-> pcFmt, vals |-> vals, ret |-> ret,
                     pTI |-> GetTopicInfo(eTopic)]
             m1 == [m EXCEPT !.pubs = Append(m.pubs, msg)]
             blink == ret # "eMQTTAgentSuccess" /\ m.sys.gpio_IsReady
             m2 == Log(m1, E("prvPublishTopic", eTopic, pcFmt, vals,
                             IF blink THEN 1 ELSE 0, 1, TRUE))
         IN  IF ret # "eMQTTAgentSuccess"
             THEN BlinkLed([m2 EXCEPT !.pubs = Append(m2.pubs, msg)], 1)
             ELSE m2

\* msg.pTI is the table entry whose name and length go into the publish
\* parameters (lines 643-645)
prvPublishTopic(m, eTopic, pcFmt, vals, ret) ==
    IF ~m.sys.xMQTTHandle
    THEN Log(m, E("prvPublishTopic", eTopic, pcFmt, vals, 0, 0, FALSE))
    ELSE LET msg == [topic |-> eTopic, fmt |-> pcFmt, vals |-> vals, ret |-> ret,
                     pTI |-> GetTopicInfo(eTopic)]
             m1 == [m EXCEPT !.pubs = Append(m.pubs, msg)]
             blink == ret # "eMQTTAgentSuccess" /\ m.sys.gpio_IsReady
             m2 == Log(m1, E("prvPublishTopic", eTopic, pcFmt, vals,
                             IF blink THEN 1 ELSE 0, 1, TRUE))
         IN  IF ret # "eMQTTAgentSuccess" THEN BlinkLed(m2, 1) ELSE m2

(***************************************************************************)
(* MAY_DIE, after its code block ran: with a non-success result code,      *)
(* publish pcErr with rc on eTopic and leave the function (die).           *)
(***************************************************************************)
\* a variant that publishes and then goes on instead of leaving the function
MAY_DIE_GoesOn(m, ret) ==
    IF m.sys.rc # XST_SUCCESS
    THEN LET m1 == prvPublishTopic(m, m.sys.eTopic, m.sys.pcErr, <<m.sys.rc>>, ret)
         IN  [die |-> FALSE,
              m |-> [m1 EXCEPT !.failed = TRUE,
                               !.dieRc = IF m.failed THEN m.dieRc ELSE m.sys.rc]]
    ELSE [die |-> FALSE, m |-> m]

MAY_DIE(m, ret) ==
    IF m.sys.rc # XST_SUCCESS
    THEN LET m1 == prvPublishTopic(m, m.sys.eTopic, m.sys.pcErr, <<m.sys.rc>>, ret)
         IN  [die |-> TRUE,
              m |-> [m1 EXCEPT !.failed = TRUE,
                               !.dieRc = IF m.failed THEN m.dieRc ELSE m.sys.rc]]
    ELSE [die |-> FALSE, m |-> m]

(***************************************************************************)
(* The bus semaphore.  A take of the available semaphore obtains it; a     *)
(* take of the empty one returns without it once the block time expires    *)
(* (the result is not looked at by the code).  Steps guard with CanTake:   *)
(* with INCLUDE_vTaskSuspend a take of the empty semaphore never returns.  *)
(***************************************************************************)
CanTake(sem) == sem = "avail" \/ (sem = "empty" /\ ~INCLUDE_vTaskSuspend)

xSemaphoreTake(m) ==
    IF m.sem = "avail" THEN [m EXCEPT !.sem = "empty", !.holds = TRUE] ELSE m

\* a variant that leaves the semaphore with the task
xSemaphoreGive_Skipped(m) == m

xSemaphoreGive(m) ==
    [m EXCEPT !.sem = IF m.sem = "NULL" THEN "NULL" ELSE "avail", !.holds = FALSE]

\* one transfer on the IIC bus: want bytes asked, got bytes moved.  The ev
\* entry is the call: want bytes, flag = the task holds the bus semaphore.
BusXfer(m, k, want, got) ==
    LET m1 == Log(m, E(k, "", "", <<>>, want, want, m.holds))
    IN  [m1 EXCEPT !.hwFault = m.hwFault \/ got # want,
                   !.busAfterFail = m.busAfterFail \/ m.failed]

portENTER_CRITICAL(m) == [m EXCEPT !.crit = m.crit + 1]

portEXIT_CRITICAL(m) == [m EXCEPT !.crit = m.crit - 1]

(***************************************************************************)
(* The register-address byte that goes on the bus.                         *)
(***************************************************************************)
\* u8 |= 0x80
Or80(v) == IF HasBit(v, 128) THEN v ELSE v + 128

\* a variant that selects auto-increment for every read
FirstSlaveReg_Always(bFirstSlaveReg, xCount) == Or80(bFirstSlaveReg)

\* lines 681-683 of ReadIicRegs: the byte handed to XIic_Send
FirstSlaveReg(bFirstSlaveReg, xCount) ==
    IF xCount > 1 THEN Or80(bFirstSlaveReg) ELSE bFirstSlaveReg

\* lines 720-722 of WriteIicRegs: pbBuf[0] as handed to XIic_Send
BufHead(b0, xCount) == IF xCount > 2 THEN Or80(b0) ELSE b0

(***************************************************************************)
(* ReadIicRegs.  sent: what XIic_Send returns for the register address;    *)
(* xReceived: what XIic_Recv returns.  nread: bytes put into the buffer.   *)
(***************************************************************************)
ReadIicRegs(m, xCount, sent, xReceived, ret) ==
    LET m1 == xSemaphoreTake(portENTER_CRITICAL(m))
        m2 == BusXfer(m1, "XIic_Send", 1, sent)
        m3 == IF 1 # sent THEN SetErr(m2, 1, "ReadIicRegs::XIic_Send(Addr) -> %08x")
              ELSE m2
        d1 == MAY_DIE(xSemaphoreGive(m3), ret)
    IN  IF d1.die THEN [m |-> d1.m, nread |-> 0]
        ELSE LET m4 == BusXfer(xSemaphoreTake(d1.m), "XIic_Recv", xCount, xReceived)
                 m5 == IF xCount # xReceived
                       THEN SetErr(m4, xReceived, "ReadIicRegs::XIic_Recv(Data) -> %08x")
                       ELSE m4
                 d2 == MAY_DIE(xSemaphoreGive(m5), ret)
             IN  IF d2.die THEN [m |-> d2.m, nread |-> xReceived]
                 ELSE [m |-> portEXIT_CRITICAL(d2.m), nread |-> xReceived]

ReadIicReg(m, sent, xReceived, ret) == ReadIicRegs(m, 1, sent, xReceived, ret)

(***************************************************************************)
(* WriteIicRegs.  xSent: what XIic_Send returns for the xCount bytes.      *)
(***************************************************************************)
WriteIicRegs(m, xCount, xSent, ret) ==
    LET m1 == BusXfer(xSemaphoreTake(m), "XIic_Send", xCount, xSent)
        m2 == IF xCount # xSent
              THEN SetErr(m1, xSent, "WriteIicRegs::XIic_Send(Buf) -> %08x")
              ELSE m1
    IN  MAY_DIE(xSemaphoreGive(m2), ret).m

WriteIicReg(m, xSent, ret) == WriteIicRegs(m, 2, xSent, ret)

(***************************************************************************)
(* Steps of the task.  Goto: the step ends at position p with these locals.*)
(***************************************************************************)
Goto(m, p, it, bv, buf, rx, to, np) ==
    /\ Commit(m)
    /\ pc' = p
    /\ iTimeout' = it
    /\ b' = bv
    /\ pbBuf' = buf
    /\ pqRxBuffer' = rx
    /\ timedOut' = to
    /\ nPolls' = np
    /\ UNCHANGED INCLUDE_vTaskSuspend

\* next sub-step of the same operation, locals kept
Step(m, p) == Goto(m, p, iTimeout, b, pbBuf, pqRxBuffer, timedOut, nPolls)

\* the sub-step after a polling loop: the loop counter is not read again
AfterLoop(m, p) == Goto(m, p, 0, b, pbBuf, pqRxBuffer, timedOut, 0)

\* L_DIE / return of a sensor operation: its locals are gone
Ret(m, p) == Goto(m, p, 0, <<>>, <<>>, <<>>, timedOut, 0)

\* a register read that aborts leaves the critical section entered: such reads
\* are explored up to depth MaxCrit
WithinCrit(m) == m.crit <= MaxCrit

\* status bytes a polled register is drawn from: only the polled bit set, and
\* the polled bit clear with every other bit set
PollBytes(mask) == {mask, 255 - mask}

(***************************************************************************)
(* The task starts with tSystem uninitialised on its stack: the IsReady    *)
(* words that StopSystem and BlinkLed may read before any driver set them  *)
(* hold whatever the stack held.  rc, pcErr, xMQTTHandle and eTopic are    *)
(* written by StartSystem before any read.  xIicSemaphore is a zeroed      *)
(* global.                                                                 *)
(***************************************************************************)
Init ==
    /\ INCLUDE_vTaskSuspend \in BOOLEAN
    /\ \E g \in BOOLEAN, i \in BOOLEAN :
         pSystem = [rc |-> XST_SUCCESS, pcErr |-> "", eTopic |-> "TOPIC_SYSTEM_STATUS",
                    xMQTTHandle |-> FALSE, gpio_IsReady |-> g, iic_IsReady |-> i,
                    pbHygrometerCalibration |-> [n |-> 0, data |-> 0]]
    /\ xIicSemaphore = "NULL"
    /\ holds = FALSE
    /\ ulCriticalNesting = 0
    /\ pc = "task_entry"
    /\ iTimeout = 0
    /\ b = <<>>
    /\ pbBuf = <<>>
    /\ pqRxBuffer = <<>>
    /\ ev = <<>>
    /\ pubs = <<>>
    /\ op = "none"
    /\ rcIn = XST_SUCCESS
    /\ failed = FALSE
    /\ dieRc = XST_SUCCESS
    /\ busAfterFail = FALSE
    /\ hwFault = FALSE
    /\ timedOut = ""
    /\ nPolls = 0
    /\ steps = <<>>

(***************************************************************************)
(* StartSystem                                                             *)
(***************************************************************************)
\* lines 1233-1254: reset the context, XGpioPs_CfgInitialize, 5 blinks
StartSystem_Gpio ==
    /\ pc = "task_entry"
    /\ \E rc \in DriverRcs, ret \in PubRets :
         LET m0 == Enter([Cur EXCEPT !.sys.rc = XST_SUCCESS, !.sys.pcErr = "Success",
                                     !.sys.xMQTTHandle = FALSE,
                                     !.sys.eTopic = "TOPIC_SYSTEM_STATUS"], "StartSystem")
             m1 == Log([m0 EXCEPT !.sys.rc = rc,
                                  !.sys.pcErr = "XGpioPs_CfgInitialize() -> %08x",
                                  !.sys.gpio_IsReady = IF rc = XST_SUCCESS THEN TRUE ELSE @],
                       E("XGpioPs_CfgInitialize", "", "", <<>>, rc, 0, FALSE))
             d == MAY_DIE(Did(m1, "XGpioPs_CfgInitialize", rc = XST_SUCCESS), ret)
         IN  IF d.die THEN Step(d.m, "stop_system")
             ELSE Step(BlinkLed(d.m, 5), "sem_create")

\* lines 1259-1264: xSemaphoreCreateBinary; the new semaphore is empty
StartSystem_CreateSemaphore ==
    /\ pc = "sem_create"
    /\ \E created \in BOOLEAN :
         IF created
         THEN Step(Did(Log([Cur EXCEPT !.sem = "empty"],
                           E("xSemaphoreCreateBinary", "", "", <<>>, 1, 1, FALSE)),
                       "xSemaphoreCreateBinary", TRUE), "sem_take")
         ELSE Step(Did(Log(Cur, E("xSemaphoreCreateBinary", "", "", <<>>, 0, 1, FALSE)),
                       "xSemaphoreCreateBinary", FALSE), "stop_system")

\* line 1266
StartSystem_Take ==
    /\ pc = "sem_take"
    /\ CanTake(xIicSemaphore)
    /\ Step(xSemaphoreTake(Cur), "iic_cfg")

\* lines 1268-1275: XIic_CfgInitialize; what a failing driver leaves in IsReady
\* is the driver's business (rdy)
StartSystem_IicCfg ==
    /\ pc = "iic_cfg"
    /\ \E rc \in DriverRcs, rdy \in BOOLEAN, ret \in PubRets :
         LET m1 == Log([Cur EXCEPT !.sys.rc = rc,
                                   !.sys.pcErr = "XIic_CfgInitialize() -> %08x",
                                   !.sys.iic_IsReady = IF rc = XST_SUCCESS THEN TRUE ELSE rdy],
                       E("XIic_CfgInitialize", "", "", <<>>, rc, 0, holds))
             d == MAY_DIE(Did(m1, "XIic_CfgInitialize", rc = XST_SUCCESS), ret)
         IN  IF d.die THEN Step(d.m, "stop_system") ELSE Step(d.m, "iic_start")

\* lines 1277-1282: XIic_Start, then the semaphore is given
StartSystem_IicStart ==
    /\ pc = "iic_start"
    /\ \E rc \in DriverRcs, ret \in PubRets :
         LET m1 == Log([Cur EXCEPT !.sys.rc = rc, !.sys.pcErr = "XIic_Start() -> %08x"],
                       E("XIic_Start", "", "", <<>>, rc, 0, holds))
             d == MAY_DIE(Did(m1, "XIic_Start", rc = XST_SUCCESS), ret)
         IN  IF d.die THEN Step(d.m, "stop_system")
             ELSE Step(xSemaphoreGive(d.m), "connect")

\* prvCreateClientAndConnectToBroker, lines 560-607
prvCreateClientAndConnectToBroker(m, created, connected) ==
    LET m1 == Log(m, E("MQTT_AGENT_Create", "", "", <<>>, IF created THEN 1 ELSE 0, 1, FALSE))
    IN  IF created
        THEN LET m2 == Log(m1, E("MQTT_AGENT_Connect", "", "", <<>>,
                                 IF connected THEN 1 ELSE 0, 1, FALSE))
             IN  IF connected
                 THEN [m2 EXCEPT !.sys.rc = XST_SUCCESS, !.sys.xMQTTHandle = TRUE]
                 ELSE [Log(m2, E("MQTT_AGENT_Delete", "", "", <<>>, 1, 1, FALSE))
                         EXCEPT !.sys.rc = XST_FAILURE,
                                !.sys.pcErr = "Could not connect to MQTT Agent",
                                !.sys.xMQTTHandle = FALSE]
        ELSE [m1 EXCEPT !.sys.rc = XST_FAILURE, !.sys.pcErr = "Could not create MQTT Agent",
                        !.sys.xMQTTHandle = FALSE]

\* a variant that goes on to the sensor starts whatever the connect returned
StartSystem_Connect_Unchecked ==
    /\ pc = "connect"
    /\ \E created \in BOOLEAN, connected \in BOOLEAN :
         LET m1 == prvCreateClientAndConnectToBroker(Cur, created, connected)
             m2 == IF XST_SUCCESS = m1.sys.rc THEN BlinkLed(m1, 5) ELSE m1
         IN  Step(Did(m2, "prvCreateClientAndConnectToBroker", m2.sys.rc = XST_SUCCESS),
                  "sb_whoami")

\* lines 1287-1292
StartSystem_Connect ==
    /\ pc = "connect"
    /\ \E created \in BOOLEAN, connected \in BOOLEAN, ret \in PubRets :
         LET m1 == prvCreateClientAndConnectToBroker(Cur, created, connected)
             m2 == IF XST_SUCCESS = m1.sys.rc THEN BlinkLed(m1, 5) ELSE m1
             d == MAY_DIE(Did(m2, "prvCreateClientAndConnectToBroker",
                              m2.sys.rc = XST_SUCCESS), ret)
         IN  IF d.die THEN Step(d.m, "stop_system") ELSE Step(d.m, "sb_whoami")

(***************************************************************************)
(* Polling loops.  One step is one evaluation of the loop test             *)
(* (iTimeout-- > 0) and, when it holds, one pass of the body.              *)
(***************************************************************************)
\* inputs of one register read that the code looks at: a receive is issued
\* only after a complete address send, a received value is used only when the
\* read went on, and the broker answers only when something is published
\* XIic_Recv can return nothing, a partial count or the whole count
RecvCounts(sent, xCount) == IF sent = 1 THEN {0, 1, xCount} ELSE {0}
ReadGoesOn(m, xCount, sent, xReceived) ==
    m.sys.rc = XST_SUCCESS /\ sent = 1 /\ xReceived \in {0, xCount}
ValuesIf(used, vals) == IF used THEN vals ELSE {CHOOSE v \in vals : TRUE}
RetsIf(published) == IF published THEN PubRets ELSE {"eMQTTAgentSuccess"}

\* a variant of the loop test that admits one more pass
LoopTest_Inclusive(i) == i >= 0

\* the test of every polling loop, iTimeout-- > 0, on the value before the decrement
LoopTest(i) == i > 0

\* for(; iTimeout-- > 0;) { MAY_DIE(ReadIicReg(&b); pcErr = errFmt); if(0 == (b & mask)) break; }
PollReg(loopPc, checkPc, retPc, loop, mask, errFmt) ==
    /\ pc = loopPc
    /\ IF LoopTest(iTimeout)
       THEN \E sent \in 0..1 : \E xReceived \in RecvCounts(sent, 1) :
            \E val \in ValuesIf(ReadGoesOn(Cur, 1, sent, xReceived), PollBytes(mask)),
               r1 \in RetsIf(~ReadGoesOn(Cur, 1, sent, xReceived)),
               r2 \in RetsIf(~ReadGoesOn(Cur, 1, sent, xReceived)) :
              LET r == ReadIicReg(Cur, sent, xReceived, r1)
                  d == MAY_DIE([r.m EXCEPT !.sys.pcErr = errFmt], r2)
                  \* nothing received: b keeps its value, which is whatever the
                  \* stack held (val) if it was never written
                  bNew == IF r.nread > 0 \/ b = <<>> THEN <<val>> ELSE b
              IN  /\ WithinCrit(r.m)
                  /\ IF d.die THEN Ret(d.m, retPc)
                     ELSE IF ~HasBit(bNew[1], mask)
                          THEN Goto(d.m, checkPc, iTimeout - 1, bNew, pbBuf, pqRxBuffer,
                                    timedOut, nPolls + 1)
                          ELSE Goto(d.m, loopPc, iTimeout - 1, bNew, pbBuf, pqRxBuffer,
                                    timedOut, nPolls + 1)
       ELSE Goto(Cur, checkPc, iTimeout - 1, b, pbBuf, pqRxBuffer, loop, nPolls)

\* a register write sub-step: MAY_DIE(WriteIicReg(...); pcErr = errFmt), then the
\* loop counter is set to it
WriteStep(m, fromPc, toPc, retPc, errFmt, it) ==
    /\ pc = fromPc
    /\ \E xSent \in 0..2 :
       \E r1 \in RetsIf(~(m.sys.rc = XST_SUCCESS /\ xSent \in {0, 2})),
          r2 \in RetsIf(~(m.sys.rc = XST_SUCCESS /\ xSent \in {0, 2})) :
         LET w == WriteIicReg(m, xSent, r1)
             d == MAY_DIE([w EXCEPT !.sys.pcErr = errFmt], r2)
             to == IF m.op = op THEN timedOut ELSE ""
         IN  IF d.die THEN Goto(d.m, retPc, 0, <<>>, <<>>, <<>>, to, 0)
             ELSE Goto(d.m, toPc, it, b, pbBuf, <<>>, to, 0)

(***************************************************************************)
(* StartBarometer, lines 749-821                                           *)
(***************************************************************************)
StartBarometer_WhoAmI ==
    /\ pc = "sb_whoami"
    /\ \E sent \in 0..1 : \E xReceived \in RecvCounts(sent, 1) :
       \E val \in ValuesIf(ReadGoesOn(Cur, 1, sent, xReceived), Bytes),
          r1 \in PubRets, r2 \in PubRets :
         LET m0 == Enter([Cur EXCEPT !.sys.eTopic = "TOPIC_BAROMETER_STATUS"],
                         "StartBarometer")
             r == ReadIicReg(m0, sent, xReceived, r1)
             d1 == MAY_DIE([r.m EXCEPT !.sys.pcErr = "ReadIicReg(WHO_AM_I) -> %08x"], r2)
             \* val: the byte received, or what the stack held when none was
             m2 == IF BAROMETER_WHO_AM_I_VALUE # val
                   THEN SetErr(d1.m, val, "BAROMETER_WHO_AM_I = %08x != BD")
                   ELSE d1.m
             d2 == MAY_DIE(m2, r2)
         IN  /\ WithinCrit(r.m)
             /\ IF d1.die THEN Goto(d1.m, "sb_ret", 0, <<>>, <<>>, <<>>, "", 0)
                ELSE IF d2.die THEN Goto(d2.m, "sb_ret", 0, <<>>, <<>>, <<>>, "", 0)
                ELSE Goto(d2.m, "sb_swreset", 0, <<val>>, <<>>, <<>>, "", 0)

StartBarometer_SwReset ==
    WriteStep(Cur, "sb_swreset", "sb_swreset_poll", "sb_ret",
              "WriteIicReg(BAROMETER_REG_CTRL_REG2::BFLD_SWRESET) -> %08x",
              BaroSwResetRetries)

StartBarometer_SwResetPoll ==
    PollReg("sb_swreset_poll", "sb_swreset_check", "sb_ret", "baro_swreset",
            BAROMETER_BFLD_SWRESET, "ReadIicReg(BAROMETER_REG_CTRL_REG2) -> %08x")

\* lines 784-789
StartBarometer_SwResetCheck ==
    /\ pc = "sb_swreset_check"
    /\ \E ret \in PubRets :
         IF iTimeout <= 0
         THEN LET d == MAY_DIE(SetErr(Cur, XST_FAILURE, "Barometer swreset timeout"), ret)
              IN  IF d.die THEN Ret(d.m, "sb_ret") ELSE AfterLoop(d.m, "sb_boot")
         ELSE AfterLoop(Cur, "sb_boot")

StartBarometer_Boot ==
    WriteStep(Cur, "sb_boot", "sb_boot_poll", "sb_ret",
              "WriteIicReg(BAROMETER_REG_CTRL_REG2::BAROMETER_BFLD_BOOT -> %08x",
              BaroBootRetries)

StartBarometer_BootPoll ==
    PollReg("sb_boot_poll", "sb_boot_check", "sb_ret", "baro_boot",
            BAROMETER_BFLD_BOOT, "ReadIicReg(BAROMETER_REG_CTRL_REG2) -> %08x")

\* lines 805-809: only pcErr is set
StartBarometer_BootCheck ==
    /\ pc = "sb_boot_check"
    /\ \E ret \in PubRets :
         IF iTimeout <= 0
         THEN LET d == MAY_DIE([Cur EXCEPT !.sys.pcErr = "Barometer boot timeout"], ret)
              IN  IF d.die THEN Ret(d.m, "sb_ret") ELSE AfterLoop(d.m, "sb_pd")
         ELSE AfterLoop(Cur, "sb_pd")

\* lines 811-817
StartBarometer_PowerUp ==
    /\ pc = "sb_pd"
    /\ \E xSent \in 0..2, r1 \in PubRets, r2 \in PubRets :
         LET w == WriteIicReg(Cur, xSent, r1)
             d == MAY_DIE([w EXCEPT !.sys.pcErr =
                             "WriteIicReg(BAROMETER_REG_CTRL_REG1::BAROMETER_BFLD_PD) -> %08x"],
                          r2)
         IN  IF d.die THEN Ret(d.m, "sb_ret")
             ELSE Ret(prvPublishTopic(d.m, "TOPIC_BAROMETER_STATUS", "Barometer started",
                                      <<>>, r2), "sb_ret")

\* lines 1296-1299
StartSystem_AfterBarometer ==
    /\ pc = "sb_ret"
    /\ \E ret \in PubRets :
         LET d == MAY_DIE(Did([Cur EXCEPT !.sys.pcErr = "StartBarometer() -> %08x"], "StartBarometer",
                              pSystem.rc = XST_SUCCESS), ret)
         IN  IF d.die THEN Step(d.m, "stop_system") ELSE Step(d.m, "spl_start")

(***************************************************************************)
(* StartPLTempSensor, lines 1053-1070, and lines 1301-1304 of StartSystem  *)
(***************************************************************************)
StartPLTempSensor ==
    /\ pc = "spl_start"
    /\ \E ret \in PubRets :
         LET m0 == Enter([Cur EXCEPT !.sys.eTopic = "TOPIC_THERMOCOUPLE_STATUS"],
                         "StartPLTempSensor")
             m1 == Log(m0, E("XSpi_WriteReg", "", "XSP_SRR_OFFSET", <<>>, 0, 0, FALSE))
             m2 == Log(m1, E("XSpi_WriteReg", "", "XSP_CR_OFFSET", <<>>, 0, 0, FALSE))
             m3 == Log(m2, E("XSpi_WriteReg", "", "XSP_SSR_OFFSET", <<>>, 0, 0, FALSE))
         IN  Goto(prvPublishTopic(m3, "TOPIC_THERMOCOUPLE_STATUS",
                                  "PL Thermocouple started", <<>>, ret),
                  "spl_start_ret", 0, <<>>, <<>>, <<>>, "", 0)

StartSystem_AfterPLTempSensor ==
    /\ pc = "spl_start_ret"
    /\ \E ret \in PubRets :
         LET d == MAY_DIE(Did([Cur EXCEPT !.sys.pcErr = "StartPLTempSensor() -> %08x"], "StartPLTempSensor",
                              pSystem.rc = XST_SUCCESS), ret)
         IN  IF d.die THEN Step(d.m, "stop_system") ELSE Step(d.m, "sh_whoami")

(***************************************************************************)
(* StartHygrometer, lines 909-971                                          *)
(***************************************************************************)
StartHygrometer_WhoAmI ==
    /\ pc = "sh_whoami"
    /\ \E sent \in 0..1 : \E xReceived \in RecvCounts(sent, 1) :
       \E val \in ValuesIf(ReadGoesOn(Cur, 1, sent, xReceived), Bytes),
          r1 \in PubRets, r2 \in PubRets :
         LET m0 == Enter([Cur EXCEPT !.sys.eTopic = "TOPIC_HYGROMETER_STATUS"],
                         "StartHygrometer")
             r == ReadIicReg(m0, sent, xReceived, r1)
             d1 == MAY_DIE([r.m EXCEPT !.sys.pcErr = "ReadIicReg(HYGROMETER_WHO_AM_I) -> %08x"],
                           r2)
             m2 == IF HYGROMETER_WHO_AM_I_VALUE # val
                   THEN SetErr(d1.m, val, "HYGROMETER_WHO_AM_I = %08x != BC")
                   ELSE d1.m
             d2 == MAY_DIE(m2, r2)
         IN  /\ WithinCrit(r.m)
             /\ IF d1.die THEN Goto(d1.m, "sh_ret", 0, <<>>, <<>>, <<>>, "", 0)
                ELSE IF d2.die THEN Goto(d2.m, "sh_ret", 0, <<>>, <<>>, <<>>, "", 0)
                ELSE Goto(d2.m, "sh_boot", 0, <<val>>, <<>>, <<>>, "", 0)

StartHygrometer_Boot ==
    WriteStep(Cur, "sh_boot", "sh_boot_poll", "sh_ret",
              "WriteIicReg(HYGROMETER_REG_CTRL_REG2::HYGROMETER_BFLD_BOOT -> %08x",
              HygroBootRetries)

StartHygrometer_BootPoll ==
    PollReg("sh_boot_poll", "sh_boot_check", "sh_ret", "hygro_boot",
            HYGROMETER_BFLD_BOOT, "ReadIicReg(BAROMETER_REG_CTRL_REG2) -> %08x")

\* lines 944-948: only pcErr is set
StartHygrometer_BootCheck ==
    /\ pc = "sh_boot_check"
    /\ \E ret \in PubRets :
         IF iTimeout <= 0
         THEN LET d == MAY_DIE([Cur EXCEPT !.sys.pcErr = "Hygrometer boot timeout"], ret)
              IN  IF d.die THEN Ret(d.m, "sh_ret") ELSE AfterLoop(d.m, "sh_calib")
         ELSE AfterLoop(Cur, "sh_calib")

\* the calibration blocks the sensor may hold
CalibrationBlocks == {1, 2}

\* lines 953-956: the 16 calibration bytes go straight into the System struct;
\* n of them arrive
StartHygrometer_Calibration ==
    /\ pc = "sh_calib"
    /\ \E sent \in 0..1 : \E xReceived \in RecvCounts(sent, CalibrationLen) :
       \E data \in ValuesIf(sent = 1 /\ xReceived > 0, CalibrationBlocks),
          r1 \in RetsIf(~ReadGoesOn(Cur, CalibrationLen, sent, xReceived)),
          r2 \in RetsIf(~ReadGoesOn(Cur, CalibrationLen, sent, xReceived)) :
         LET r == ReadIicRegs(Cur, CalibrationLen, sent, xReceived, r1)
             m1 == IF r.nread > 0
                   THEN [r.m EXCEPT !.sys.pbHygrometerCalibration =
                                       [n |-> r.nread, data |-> data]]
                   ELSE r.m
             d == MAY_DIE([m1 EXCEPT !.sys.pcErr = "ReadIicRegs(HYGROMETER_REG_CALIB_0) -> %08x"],
                          r2)
         IN  /\ WithinCrit(r.m)
             /\ IF d.die THEN Ret(d.m, "sh_ret") ELSE Step(d.m, "sh_pd")

\* lines 961-967
StartHygrometer_PowerUp ==
    /\ pc = "sh_pd"
    /\ \E xSent \in 0..2, r1 \in PubRets, r2 \in PubRets :
         LET w == WriteIicReg(Cur, xSent, r1)
             d == MAY_DIE([w EXCEPT !.sys.pcErr =
                             "WriteIicReg(HYGROMETER_REG_CTRL_REG1::HYGROMETER_BFLD_PD) -> %08x"],
                          r2)
         IN  IF d.die THEN Ret(d.m, "sh_ret")
             ELSE Ret(prvPublishTopic(d.m, "TOPIC_HYGROMETER_STATUS", "Hygrometer started",
                                      <<>>, r2), "sh_ret")

\* lines 1306-1315, and line 1363 of the task
StartSystem_AfterHygrometer ==
    /\ pc = "sh_ret"
    /\ \E ret \in PubRets :
         LET d == MAY_DIE(Did([Cur EXCEPT !.sys.pcErr = "StartHygroMeter() -> %08x"], "StartHygrometer",
                              pSystem.rc = XST_SUCCESS), ret)
         IN  IF d.die THEN Step(d.m, "stop_system")
             ELSE Step(prvPublishTopic(d.m, "TOPIC_SYSTEM_STATUS", "System started", <<>>, ret),
                       "loop_delay")

(***************************************************************************)
(* The sampling loop of prvMQTTConnectAndPublishTask, lines 1368-1376      *)
(***************************************************************************)
vTaskDelayUntil ==
    /\ pc = "loop_delay"
    /\ Goto(Log(Cur, E("vTaskDelayUntil", "", "", <<>>, 0, 0, FALSE)), "smb_oneshot",
            0, <<>>, <<>>, <<>>, timedOut, 0)

\* the five data bytes of status+data block i
DataBlock(i) == [j \in 1..5 |-> (i * (250 + j)) % 256]

\* status bytes of a status+data block: every combination of the two ready bits
BlockStatus == 0..3

\* for(; xTimeout-- > 0;) { MAY_DIE(ReadIicRegs(xCount, pbBuf); pcErr = errFmt);
\*                          if(mask == (pbBuf[0] & mask)) break; }  with mask = bit1 | bit2
PollBlock(loopPc, checkPc, retPc, loop, xCount, bit1, bit2, errFmt) ==
    /\ pc = loopPc
    /\ IF LoopTest(iTimeout)
       THEN \E sent \in 0..1 : \E xReceived \in RecvCounts(sent, xCount) :
            \E st \in ValuesIf(ReadGoesOn(Cur, xCount, sent, xReceived), BlockStatus) :
            \E data \in ValuesIf(ReadGoesOn(Cur, xCount, sent, xReceived)
                                   /\ HasBit(st, bit1) /\ HasBit(st, bit2), 0..MaxData),
               r1 \in RetsIf(~ReadGoesOn(Cur, xCount, sent, xReceived)),
               r2 \in RetsIf(~ReadGoesOn(Cur, xCount, sent, xReceived)) :
              LET r == ReadIicRegs(Cur, xCount, sent, xReceived, r1)
                  d == MAY_DIE([r.m EXCEPT !.sys.pcErr = errFmt], r2)
                  bufNew == IF r.nread > 0 \/ pbBuf = <<>>
                            THEN <<st>> \o SubSeq(DataBlock(data), 1, xCount - 1)
                            ELSE pbBuf
              IN  /\ WithinCrit(r.m)
                  /\ IF d.die THEN Ret(d.m, retPc)
                     ELSE IF HasBit(bufNew[1], bit1) /\ HasBit(bufNew[1], bit2)
                          THEN Goto(d.m, checkPc, iTimeout - 1, b, bufNew, pqRxBuffer,
                                    timedOut, nPolls + 1)
                          ELSE Goto(d.m, loopPc, iTimeout - 1, b, bufNew, pqRxBuffer,
                                    timedOut, nPolls + 1)
       ELSE Goto(Cur, checkPc, iTimeout - 1, b, pbBuf, pqRxBuffer, loop, nPolls)

\* MAY_DIE({ if(xTimeout <= 0) { rc = XST_FAILURE; pcErr = errFmt; } }), then the next
\* loop counter is set to it
TimeoutCheck(fromPc, toPc, retPc, errFmt, it) ==
    /\ pc = fromPc
    /\ \E ret \in RetsIf(iTimeout <= 0) :
         LET m1 == IF iTimeout <= 0 THEN SetErr(Cur, XST_FAILURE, errFmt) ELSE Cur
             d == MAY_DIE(m1, ret)
         IN  IF d.die THEN Ret(d.m, retPc)
             ELSE Goto(d.m, toPc, it, <<>>, pbBuf, pqRxBuffer, timedOut, 0)

(***************************************************************************)
(* SampleBarometer, lines 828-905                                          *)
(***************************************************************************)
SampleBarometer_OneShot ==
    WriteStep(Enter([Cur EXCEPT !.sys.eTopic = "TOPIC_BAROMETER_STATUS"], "SampleBarometer"),
              "smb_oneshot", "smb_oneshot_poll", "smb_ret",
              "WriteIicReg(BAROMETER_REG_CTRL_REG2::BAROMETER_BFLD_ONE_SHOT) -> %08x",
              BaroOneShotRetries)

SampleBarometer_OneShotPoll ==
    PollReg("smb_oneshot_poll", "smb_oneshot_check", "smb_ret", "baro_oneshot",
            BAROMETER_BFLD_ONE_SHOT, "ReadIicRegs(6@BAROMETER_REG_STATUS_REG) -> %08x")

SampleBarometer_OneShotCheck ==
    TimeoutCheck("smb_oneshot_check", "smb_da_poll", "smb_ret",
                 "Timed out waiting for BAROMETER_BFLD_ONE_SHOT", BaroDataRetries)

SampleBarometer_DataPoll ==
    PollBlock("smb_da_poll", "smb_da_check", "smb_ret", "baro_data", BaroBlockLen,
              BAROMETER_BFLD_P_DA, BAROMETER_BFLD_T_DA,
              "ReadIicRegs(6@BAROMETER_REG_STATUS_REG) -> %08x")

\* a variant without the sign extension
PressureCount_Unsigned(xl, l, h) == xl + 256 * l + 65536 * h

\* lines 882-889: three bytes, little-endian, sign-extended from bit 23 by
\* sqTmp |= 0xFF800000 in a 32-bit two's-complement word
PressureCount(xl, l, h) ==
    LET u == xl + 256 * l + 65536 * h
    IN  IF HasBit(u, 8388608) THEN (u % 8388608) - 8388608 ELSE u

\* lines 893-899: two bytes, little-endian, sign-extended from bit 15
TemperatureCount(l, h) ==
    LET u == l + 256 * h
    IN  IF HasBit(u, 32768) THEN (u % 32768) - 32768 ELSE u

\* lines 874-901.  A published float is <<numerator, denominator>>:
\* count / 4096 hPa, and 42.5 + count / 480 C
SampleBarometer_DataCheck ==
    /\ pc = "smb_da_check"
    /\ \E r1 \in PubRets, r2 \in PubRets :
         LET m1 == IF iTimeout <= 0
                   THEN SetErr(Cur, XST_FAILURE, "Timed out waiting for P_DA and T_DA")
                   ELSE Cur
             d == MAY_DIE(m1, r1)
             p1 == prvPublishTopic(d.m, "TOPIC_BAROMETER_PRESSURE", "%.2f hPa",
                                   <<PressureCount(pbBuf[2], pbBuf[3], pbBuf[4]), 4096>>, r1)
             p2 == prvPublishTopic(p1, "TOPIC_BAROMETER_TEMPERATURE", "%.2f C",
                                   <<20400 + TemperatureCount(pbBuf[5], pbBuf[6]), 480>>, r2)
         IN  IF d.die THEN Ret(d.m, "smb_ret") ELSE Ret(p2, "smb_ret")

(***************************************************************************)
(* SamplePLTempSensor and XSpi_LowLevelExecute, lines 1082-1222            *)
(***************************************************************************)
\* a variant of the step below that ends the period when the barometer sample
\* left a failure code
SamplePLTempSensor_Begin_UnlessFailed ==
    /\ pc = "smb_ret"
    /\ IF pSystem.rc # XST_SUCCESS
       THEN Goto(Cur, "loop_delay", 0, <<>>, <<>>, <<>>, timedOut, 0)
       ELSE LET m0 == Enter([Cur EXCEPT !.sys.eTopic = "TOPIC_THERMOCOUPLE_STATUS"],
                            "SamplePLTempSensor")
                m1 == Log(m0, E("XSpi_WriteReg", "", "XSP_DTR_OFFSET", <<>>, SpiByteCount,
                                0, FALSE))
                m2 == Log(m1, E("XSpi_WriteReg", "", "XSP_SSR_OFFSET", <<>>, 0, 0, FALSE))
                m3 == Log(m2, E("XSpi_WriteReg", "", "XSP_CR_OFFSET", <<>>, 0, 0, FALSE))
            IN  Goto(m3, "spi_tx_wait", 0, <<>>, <<>>, <<>>, "", 0)

\* lines 1175, 1092-1105: fill the transmit FIFO, select the channel, release
\* the inhibit
SamplePLTempSensor_Begin ==
    /\ pc = "smb_ret"
    /\ LET m0 == Enter([Cur EXCEPT !.sys.eTopic = "TOPIC_THERMOCOUPLE_STATUS"],
                       "SamplePLTempSensor")
           m1 == Log(m0, E("XSpi_WriteReg", "", "XSP_DTR_OFFSET", <<>>, SpiByteCount, 0, FALSE))
           m2 == Log(m1, E("XSpi_WriteReg", "", "XSP_SSR_OFFSET", <<>>, 0, 0, FALSE))
           m3 == Log(m2, E("XSpi_WriteReg", "", "XSP_CR_OFFSET", <<>>, 0, 0, FALSE))
       IN  Goto(m3, "spi_tx_wait", 0, <<>>, <<>>, <<>>, "", 0)

\* line 1111: while(!(SR & TX_EMPTY)) ;
XSpi_TxWait ==
    /\ pc = "spi_tx_wait"
    /\ \E txEmpty \in BOOLEAN :
         Step(Log(Cur, E("XSpi_ReadReg", "", "XSP_SR_OFFSET", <<>>, 0, 0, txEmpty)),
              IF txEmpty THEN "spi_rfo_wait" ELSE "spi_tx_wait")

\* a variant that gives up waiting after one read of the occupancy
XSpi_RfoWait_GivesUp ==
    /\ pc = "spi_rfo_wait"
    /\ \E occupancy \in 0..SpiByteCount :
         Step(Log(Cur, E("XSpi_ReadReg", "", "XSP_RFO_OFFSET", <<>>, occupancy,
                         SpiByteCount - 1, FALSE)), "spi_drain")

\* lines 1121-1125: while(xByteCount - 1 != RFO) ;
XSpi_RfoWait ==
    /\ pc = "spi_rfo_wait"
    /\ \E occupancy \in 0..SpiByteCount :
         Step(Log(Cur, E("XSpi_ReadReg", "", "XSP_RFO_OFFSET", <<>>, occupancy,
                         SpiByteCount - 1, FALSE)),
              IF SpiByteCount - 1 = occupancy THEN "spi_drain" ELSE "spi_rfo_wait")

\* MAX31855 frames: every combination of the four fault bits (with other bits
\* of those bytes set or clear), and fault-free frames of either sign
FaultFrames ==
    {<<255, b1, 0, b3>> : b1 \in {0, 1, 253}, b3 \in (1..7) \cup {247}}
        \cup {<<255, b1, 0, b3>> : b1 \in {1, 253}, b3 \in {0, 240}}
DataFrames ==
    {<<b0, b1, b2, b3>> : b0 \in {0, 1, 127, 128, 255}, b1 \in {0, 254},
                          b2 \in {0, 100, 127, 128, 255}, b3 \in {0, 248}}
Frames == FaultFrames \cup DataFrames
\* ~0 in a 32-bit word, as the two's-complement integer with every bit set
AllOnes == -1

\* a variant without the sign extension
InternalCount_Unsigned(b2, b3) == (b2 * 16) + (b3 \div 16)

\* lines 1196-1204: bits 11..0 from byte 2 and the top four bits of byte 3;
\* sqTemporaryValue |= 0xFFFFF800 when byte 2 has its top bit set
InternalCount(b2, b3) ==
    LET v == (b2 * 16) + (b3 \div 16)
    IN  IF HasBit(b2, 128) THEN (v % 2048) - 2048 ELSE v

\* lines 1210-1218: bits 13..0 from byte 0 and the top six bits of byte 1;
\* sqTemporaryValue |= 0xFFFFE000 when byte 0 has its top bit set
ThermocoupleCount(b0, b1) ==
    LET v == (b0 * 64) + (b1 \div 4)
    IN  IF HasBit(b0, 128) THEN (v % 8192) - 8192 ELSE v

\* a variant that looks at short-to-ground before open-circuit
Classify_GndFirst(m, rx, r1, r2) ==
    IF XST_SUCCESS # m.sys.rc
    THEN [prvPublishTopic(m, "TOPIC_THERMOCOUPLE_STATUS", "SPI Transaction failure", <<>>, r1)
            EXCEPT !.failed = TRUE, !.dieRc = m.sys.rc]
    ELSE IF HasBit(rx[4], 2)
    THEN prvPublishTopic(m, "TOPIC_THERMOCOUPLE_STATUS", "Short to GND", <<>>, r1)
    ELSE IF HasBit(rx[4], 1)
    THEN prvPublishTopic(m, "TOPIC_THERMOCOUPLE_STATUS", "Open Circuit", <<>>, r1)
    ELSE IF HasBit(rx[4], 4)
    THEN prvPublishTopic(m, "TOPIC_THERMOCOUPLE_STATUS", "Short to VCC", <<>>, r1)
    ELSE IF HasBit(rx[2], 1)
    THEN prvPublishTopic(m, "TOPIC_THERMOCOUPLE_STATUS", "Fault", <<>>, r1)
    ELSE prvPublishTopic(
           prvPublishTopic(m, "TOPIC_THERMOCOUPLE_BOARD_TEMPERATURE", "%.1f C",
                           <<InternalCount(rx[3], rx[4]), 16>>, r1),
           "TOPIC_THERMOCOUPLE_TEMPERATURE", "%.1f C",
           <<ThermocoupleCount(rx[1], rx[2]), 4>>, r2)

\* a variant that publishes the two measurements after a fault text as well
Classify_MeasuresAnyway(m, rx, r1, r2) ==
    LET c == Classify_GndFirst(m, rx, r1, r2)
    IN  IF XST_SUCCESS = m.sys.rc /\ HasBit(rx[2], 1)
        THEN prvPublishTopic(
               prvPublishTopic(c, "TOPIC_THERMOCOUPLE_BOARD_TEMPERATURE", "%.1f C",
                               <<InternalCount(rx[3], rx[4]), 16>>, r1),
               "TOPIC_THERMOCOUPLE_TEMPERATURE", "%.1f C",
               <<ThermocoupleCount(rx[1], rx[2]), 4>>, r2)
        ELSE c

\* a variant that turns a fault bit of the sensor into a failure code
Classify_FaultIsError(m, rx, r1, r2) ==
    LET c == Classify_GndFirst(m, rx, r1, r2)
    IN  IF XST_SUCCESS = m.sys.rc
           /\ (HasBit(rx[4], 1) \/ HasBit(rx[4], 2) \/ HasBit(rx[4], 4) \/ HasBit(rx[2], 1))
        THEN [c EXCEPT !.sys.rc = XST_FAILURE]
        ELSE c

\* lines 1180-1221, after the transfer
Classify(m, rx, r1, r2) ==
    IF XST_SUCCESS # m.sys.rc
    THEN [prvPublishTopic(m, "TOPIC_THERMOCOUPLE_STATUS", "SPI Transaction failure", <<>>, r1)
            EXCEPT !.failed = TRUE, !.dieRc = m.sys.rc]
    ELSE IF HasBit(rx[4], 1)
    THEN prvPublishTopic(m, "TOPIC_THERMOCOUPLE_STATUS", "Open Circuit", <<>>, r1)
    ELSE IF HasBit(rx[4], 2)
    THEN prvPublishTopic(m, "TOPIC_THERMOCOUPLE_STATUS", "Short to GND", <<>>, r1)
    ELSE IF HasBit(rx[4], 4)
    THEN prvPublishTopic(m, "TOPIC_THERMOCOUPLE_STATUS", "Short to VCC", <<>>, r1)
    ELSE IF HasBit(rx[2], 1)
    THEN prvPublishTopic(m, "TOPIC_THERMOCOUPLE_STATUS", "Fault", <<>>, r1)
    ELSE prvPublishTopic(
           prvPublishTopic(m, "TOPIC_THERMOCOUPLE_BOARD_TEMPERATURE", "%.1f C",
                           <<InternalCount(rx[3], rx[4]), 16>>, r1),
           "TOPIC_THERMOCOUPLE_TEMPERATURE", "%.1f C",
           <<ThermocoupleCount(rx[1], rx[2]), 4>>, r2)

\* lines 1134-1156 and 1180-1221: drain n words from the receive FIFO, inhibit,
\* deselect, set rc, then classify and publish
SamplePLTempSensor_Finish ==
    /\ pc = "spi_drain"
    /\ \E n \in 0..SpiByteCount :
       \E got \in ValuesIf(n = SpiByteCount, Frames) :
       \E r1 \in PubRets, r2 \in RetsIf(n = SpiByteCount /\ got \in DataFrames) :
         LET
             rx == [i \in 1..SpiByteCount |-> IF i <= n THEN got[i] ELSE AllOnes]
             m1 == Log(Cur, E("XSpi_ReadReg", "", "XSP_DRR_OFFSET", <<>>, n, SpiByteCount, FALSE))
             m2 == Log(m1, E("XSpi_WriteReg", "", "XSP_CR_OFFSET", <<>>, 0, 0, FALSE))
             m3 == Log(m2, E("XSpi_WriteReg", "", "XSP_SSR_OFFSET", <<>>, 0, 0, FALSE))
             m4 == [m3 EXCEPT !.sys.rc = IF SpiByteCount # n THEN XST_FAILURE ELSE XST_SUCCESS,
                              !.hwFault = SpiByteCount # n]
         IN  Goto(Classify(m4, rx, r1, r2), "spl_ret", 0, <<>>, <<>>, rx, "", 0)

(***************************************************************************)
(* SampleHygrometer, lines 978-1044                                        *)
(***************************************************************************)
SampleHygrometer_OneShot ==
    WriteStep(Enter([Cur EXCEPT !.sys.eTopic = "TOPIC_HYGROMETER_STATUS"], "SampleHygrometer"),
              "spl_ret", "smh_oneshot_poll", "loop_delay",
              "WriteIicReg(HYGROMETER_REG_CTRL_REG2::HYGROMETER_BFLD_ONE_SHOT) -> %08x",
              HygroOneShotRetries)

SampleHygrometer_OneShotPoll ==
    PollReg("smh_oneshot_poll", "smh_oneshot_check", "loop_delay", "hygro_oneshot",
            HYGROMETER_BFLD_ONE_SHOT, "ReadIicRegs(6@HYGROMETER_REG_STATUS_REG) -> %08x")

SampleHygrometer_OneShotCheck ==
    TimeoutCheck("smh_oneshot_check", "smh_da_poll", "loop_delay",
                 "Timed out waiting for HYGROMETER_BFLD_ONE_SHOT", HygroDataRetries)

SampleHygrometer_DataPoll ==
    PollBlock("smh_da_poll", "smh_da_check", "loop_delay", "hygro_data", HygroBlockLen,
              HYGROMETER_BFLD_H_DA, HYGROMETER_BFLD_T_DA,
              "ReadIicRegs(6@HYGROMETER_REG_STATUS_REG) -> %08x")

\* lines 1023-1040: the published values are the constants 100.0 and 1000.0
SampleHygrometer_DataCheck ==
    /\ pc = "smh_da_check"
    /\ \E r1 \in PubRets, r2 \in PubRets :
         LET m1 == IF iTimeout <= 0
                   THEN SetErr(Cur, XST_FAILURE, "Timed out waiting for HYGROMETER P_DA and T_DA")
                   ELSE Cur
             d == MAY_DIE(m1, r1)
             p1 == prvPublishTopic(d.m, "TOPIC_HYGROMETER_RELATIVE_HUMIDITY", "%.2f %%rH",
                                   <<100, 1>>, r1)
             p2 == prvPublishTopic(p1, "TOPIC_HYGROMETER_HUMIDITY_SENSOR_TEMPERATURE", "%.2f C",
                                   <<1000, 1>>, r2)
         IN  IF d.die THEN Ret(d.m, "loop_delay") ELSE Ret(p2, "loop_delay")

(***************************************************************************)
(* The sensor stops, lines 823-826, 973-976 and 1077-1080: each only sets  *)
(* eTopic.                                                                 *)
(***************************************************************************)
\* a variant that also reports the stop on the status channel
StopBarometer_Reports(m) ==
    prvPublishTopic([m EXCEPT !.sys.eTopic = "TOPIC_BAROMETER_STATUS"],
                    "TOPIC_BAROMETER_STATUS", "Barometer stopped", <<>>, "eMQTTAgentSuccess")

StopBarometer(m) == [m EXCEPT !.sys.eTopic = "TOPIC_BAROMETER_STATUS"]

\* a variant that also wipes the calibration buffer
StopHygrometer_Wipes(m) ==
    [m EXCEPT !.sys.eTopic = "TOPIC_HYGROMETER_STATUS",
              !.sys.pbHygrometerCalibration = [n |-> 0, data |-> 0]]

StopHygrometer(m) == [m EXCEPT !.sys.eTopic = "TOPIC_HYGROMETER_STATUS"]

StopPLTempSensor(m) == [m EXCEPT !.sys.eTopic = "TOPIC_THERMOCOUPLE_STATUS"]

(***************************************************************************)
(* StopSystem, lines 1323-1346                                             *)
(***************************************************************************)
\* lines 1325-1335: disconnect, the three sensor stops, the test of iic.IsReady
StopSystem_Begin ==
    /\ pc = "stop_system"
    /\ LET m0 == [Cur EXCEPT !.sys.eTopic = "TOPIC_SYSTEM_STATUS"]
           m1 == IF m0.sys.xMQTTHandle
                 THEN Log(m0, E("MQTT_AGENT_Disconnect", "", "", <<>>, 1, 1, FALSE))
                 ELSE m0
           m4 == StopBarometer(StopPLTempSensor(StopHygrometer(m1)))
       IN  IF m4.sys.iic_IsReady THEN Step(m4, "stop_take") ELSE Step(m4, "stop_finish")

\* lines 1336-1338.  A take through the NULL handle is undefined: the kernel's
\* assertion halts the task, or the call comes back.
StopSystem_StopIic ==
    /\ pc = "stop_take"
    /\ IF xIicSemaphore = "NULL"
       THEN \E halts \in BOOLEAN :
              IF halts
              THEN Step(Log(Cur, E("xSemaphoreTake", "", "NULL", <<>>, 0, 1, FALSE)), "halted")
              ELSE Step(xSemaphoreGive(Log(xSemaphoreTake(Cur),
                            E("XIic_Stop", "", "", <<>>, 0, 0, holds))), "stop_finish")
       ELSE /\ CanTake(xIicSemaphore)
            /\ LET m1 == xSemaphoreTake(Cur)
               IN  Step(xSemaphoreGive(Log(m1, E("XIic_Stop", "", "", <<>>, 0, 0, m1.holds))),
                        "stop_finish")

\* a variant in which the task is not deleted and StartSystem returns to the
\* sampling loop
StopSystem_Finish_Returns ==
    /\ pc = "stop_finish"
    /\ Step(BlinkLed(Cur, 5), "loop_delay")

\* lines 1341-1345
StopSystem_Finish ==
    /\ pc = "stop_finish"
    /\ Step(Log(BlinkLed(Cur, 5), E("vTaskDelete", "", "", <<>>, 0, 0, FALSE)), "deleted")

Next ==
    \/ StartSystem_Gpio
    \/ StartSystem_CreateSemaphore
    \/ StartSystem_Take
    \/ StartSystem_IicCfg
    \/ StartSystem_IicStart
    \/ StartSystem_Connect
    \/ StartBarometer_WhoAmI
    \/ StartBarometer_SwReset
    \/ StartBarometer_SwResetPoll
    \/ StartBarometer_SwResetCheck
    \/ StartBarometer_Boot
    \/ StartBarometer_BootPoll
    \/ StartBarometer_BootCheck
    \/ StartBarometer_PowerUp
    \/ StartSystem_AfterBarometer
    \/ StartPLTempSensor
    \/ StartSystem_AfterPLTempSensor
    \/ StartHygrometer_WhoAmI
    \/ StartHygrometer_Boot
    \/ StartHygrometer_BootPoll
    \/ StartHygrometer_BootCheck
    \/ StartHygrometer_Calibration
    \/ StartHygrometer_PowerUp
    \/ StartSystem_AfterHygrometer
    \/ vTaskDelayUntil
    \/ SampleBarometer_OneShot
    \/ SampleBarometer_OneShotPoll
    \/ SampleBarometer_OneShotCheck
    \/ SampleBarometer_DataPoll
    \/ SampleBarometer_DataCheck
    \/ SamplePLTempSensor_Begin
    \/ XSpi_TxWait
    \/ XSpi_RfoWait
    \/ SamplePLTempSensor_Finish
    \/ SampleHygrometer_OneShot
    \/ SampleHygrometer_OneShotPoll
    \/ SampleHygrometer_OneShotCheck
    \/ SampleHygrometer_DataPoll
    \/ SampleHygrometer_DataCheck
    \/ StopSystem_Begin
    \/ StopSystem_StopIic
    \/ StopSystem_Finish

Spec == Init /\ [][Next]_vars

(***************************************************************************)
(* The functions on their own: each is called once, from a state the task  *)
(* can hand it, with arguments drawn from the sets below.                  *)
(***************************************************************************)
\* byte values at the edges of the sign and carry positions
EdgeBytes == {0, 1, 127, 128, 255}

\* every code of MQTTAgentReturnCode_t
AllPubRets == {"eMQTTAgentSuccess", "eMQTTAgentFailure", "eMQTTAgentTimeout",
               "eMQTTAgentAPICalledFromCallback"}

\* values a TOPIC argument can have: the enumerators, TOPIC_LAST included,
\* and an integer that is none of them
Identities == {pTopicInfo[i] : i \in DOMAIN pTopicInfo} \cup {"(TOPIC)(TOPIC_LAST + 1)"}

\* System structs the task can hold: the broker handle is only ever set after
\* both drivers were initialised
UnitSystems ==
    {s \in [rc : {XST_SUCCESS, XST_FAILURE},
            pcErr : {"Success", "XIic_Start() -> %08x"},
            eTopic : {"TOPIC_SYSTEM_STATUS", "TOPIC_BAROMETER_STATUS",
                      "TOPIC_THERMOCOUPLE_STATUS", "TOPIC_HYGROMETER_STATUS"},
            xMQTTHandle : BOOLEAN, gpio_IsReady : BOOLEAN, iic_IsReady : BOOLEAN,
            pbHygrometerCalibration : {[n |-> 0, data |-> 0],
                                       [n |-> CalibrationLen, data |-> 1]}] :
        s.xMQTTHandle => (s.gpio_IsReady /\ s.iic_IsReady)}

\* either a call of prvPublishTopic, GetTopicInfo or a sensor stop is about to
\* be made, or a sample operation is about to read or write registers (with
\* the result code the operations before it left), or SampleBarometer has just
\* read a complete status+data block
UnitInit ==
    /\ INCLUDE_vTaskSuspend = TRUE
    /\ holds = FALSE
    /\ ulCriticalNesting = 0
    /\ b = <<>>
    /\ pqRxBuffer = <<>>
    /\ ev = <<>>
    /\ pubs = <<>>
    /\ failed = FALSE
    /\ dieRc = XST_SUCCESS
    /\ busAfterFail = FALSE
    /\ hwFault = FALSE
    /\ timedOut = ""
    /\ \/ /\ pc \in {"call_prvPublishTopic", "call_GetTopicInfo", "call_Stop"}
          /\ pSystem \in UnitSystems
          /\ xIicSemaphore = IF pSystem.xMQTTHandle THEN "avail" ELSE "NULL"
          /\ iTimeout = 0
          /\ pbBuf = <<>>
          /\ op = "none"
          /\ rcIn = XST_SUCCESS
          /\ nPolls = 0
          /\ steps = IF pSystem.xMQTTHandle THEN Returned(5) ELSE <<>>
       \/ /\ pc \in {"call_ReadIicRegs", "call_WriteIicRegs"}
          /\ pSystem \in {s \in UnitSystems :
                           /\ s.xMQTTHandle
                           /\ s.eTopic \in {"TOPIC_BAROMETER_STATUS", "TOPIC_HYGROMETER_STATUS"}}
          \* every read follows a MAY_DIE that saw success; the write that opens
          \* a sample is called with whatever the period before left in rc
          /\ pc = "call_ReadIicRegs" => pSystem.rc = XST_SUCCESS
          /\ xIicSemaphore = "avail"
          /\ iTimeout = 0
          /\ pbBuf = <<>>
          /\ op = IF pSystem.eTopic = "TOPIC_BAROMETER_STATUS" THEN "SampleBarometer"
                  ELSE "SampleHygrometer"
          /\ rcIn = pSystem.rc
          /\ nPolls = 0
          /\ steps = Returned(Len(StartOrder))
       \/ /\ pc = "smb_da_check"
          /\ pSystem = [rc |-> XST_SUCCESS,
                        pcErr |-> "ReadIicRegs(6@BAROMETER_REG_STATUS_REG) -> %08x",
                        eTopic |-> "TOPIC_BAROMETER_STATUS", xMQTTHandle |-> TRUE,
                        gpio_IsReady |-> TRUE, iic_IsReady |-> TRUE,
                        pbHygrometerCalibration |-> [n |-> CalibrationLen, data |-> 1]]
          /\ xIicSemaphore = "avail"
          /\ iTimeout = BaroDataRetries - 1
          /\ \E xl \in EdgeBytes, l \in EdgeBytes, h \in EdgeBytes, tl \in {0, 255},
                th \in {0, 128} :
                pbBuf = <<BAROMETER_BFLD_P_DA + BAROMETER_BFLD_T_DA, xl, l, h, tl, th>>
          /\ op = "SampleBarometer"
          /\ rcIn = XST_SUCCESS
          /\ nPolls = 1
          /\ steps = Returned(Len(StartOrder))
       \* SampleBarometer in front of its data loop (line 864): the one-shot
       \* write and its poll went through, pbBuf has not been written yet
       \/ /\ pc = "smb_da_poll"
          /\ pSystem \in {s \in UnitSystems :
                           /\ s.rc = XST_SUCCESS /\ s.xMQTTHandle
                           /\ s.eTopic = "TOPIC_BAROMETER_STATUS"}
          /\ xIicSemaphore = "avail"
          /\ iTimeout = BaroDataRetries
          /\ pbBuf = <<>>
          /\ op = "SampleBarometer"
          /\ rcIn = XST_SUCCESS
          /\ nPolls = 0
          /\ steps = Returned(Len(StartOrder))

\* one call of prvPublishTopic, lines 609-673
Unit_prvPublishTopic ==
    /\ pc = "call_prvPublishTopic"
    /\ \E i \in DOMAIN Topics, ret \in AllPubRets :
         Step(prvPublishTopic(Cur, Topics[i], "%s", <<>>, ret), "ret_prvPublishTopic")

\* one call of GetTopicInfo, lines 545-558; the ev entry carries the identity
\* asked for and, in n, what came back
Unit_GetTopicInfo ==
    /\ pc = "call_GetTopicInfo"
    /\ \E eTopic \in Identities :
         Step(Log(Cur, E("GetTopicInfo", eTopic, "", <<>>, GetTopicInfo(eTopic), 0, FALSE)),
              "ret_GetTopicInfo")

\* one call, or two calls in a row, of a sensor stop; the ev entry names the
\* stop and, in n, how often it was called
Unit_Stop ==
    /\ pc = "call_Stop"
    /\ \E stop \in {"StopBarometer", "StopPLTempSensor", "StopHygrometer"}, n \in 1..2 :
         LET once(m) == CASE stop = "StopBarometer" -> StopBarometer(m)
                          [] stop = "StopPLTempSensor" -> StopPLTempSensor(m)
                          [] OTHER -> StopHygrometer(m)
             m1 == once(Cur)
             m2 == IF n = 2 THEN once(m1) ELSE m1
         IN  Step(Log(m2, E(stop, "", "", <<>>, n, 0, FALSE)), "ret_Stop")

\* the register addresses the program uses, lines 124-180
Registers == {15, 32, 33, 39, 48}

\* the byte counts of the program's reads, lines 713, 866, 954, 1015
ReadCounts == {1, HygroBlockLen, BaroBlockLen, CalibrationLen}

\* one call of ReadIicRegs, lines 677-709; the ev entry in front of the bus
\* transfers carries <<register, count>> and, in n, the address byte sent
Unit_ReadIicRegs ==
    /\ pc = "call_ReadIicRegs"
    /\ \E reg \in Registers, xCount \in ReadCounts, sent \in 0..1, ret \in PubRets :
       \E xReceived \in RecvCounts(sent, xCount) :
         LET m0 == Log(Cur, E("bFirstSlaveReg", "", "", <<reg, xCount>>,
                              FirstSlaveReg(reg, xCount), xCount, FALSE))
         IN  Step(ReadIicRegs(m0, xCount, sent, xReceived, ret).m, "ret_ReadIicRegs")

\* one call of WriteIicRegs, lines 716-736, with a buffer of 1 to 3 bytes;
\* the ev entry carries <<register, count>> and, in n, pbBuf[0] as sent
Unit_WriteIicRegs ==
    /\ pc = "call_WriteIicRegs"
    /\ \E reg \in Registers, xCount \in 1..3, ret \in PubRets :
       \E xSent \in 0..xCount :
         LET m0 == Log(Cur, E("pbBuf[0]", "", "", <<reg, xCount>>,
                              BufHead(reg, xCount), xCount, FALSE))
         IN  Step(WriteIicRegs(m0, xCount, xSent, ret), "ret_WriteIicRegs")

UnitNext ==
    \/ Unit_ReadIicRegs
    \/ Unit_WriteIicRegs
    \/ Unit_prvPublishTopic
    \/ Unit_GetTopicInfo
    \/ Unit_Stop
    \/ SampleBarometer_DataPoll
    \/ SampleBarometer_DataCheck

UnitSpec == UnitInit /\ [][UnitNext]_vars

(***************************************************************************)
(* Vocabulary of the properties                                            *)
(***************************************************************************)
IicOps == {"StartBarometer", "SampleBarometer", "StartHygrometer", "SampleHygrometer"}
SampleOps == {"SampleBarometer", "SamplePLTempSensor", "SampleHygrometer"}

\* the positions of the sampling loop
SamplingPcs == {"loop_delay", "smb_oneshot", "smb_oneshot_poll", "smb_oneshot_check",
                "smb_da_poll", "smb_da_check", "smb_ret", "spi_tx_wait", "spi_rfo_wait",
                "spi_drain", "spl_ret", "smh_oneshot_poll", "smh_oneshot_check",
                "smh_da_poll", "smh_da_check"}

\* the status channel each sensor operation sets in eTopic on entry
StatusChannel(o) ==
    CASE o \in {"StartBarometer", "SampleBarometer"} -> "TOPIC_BAROMETER_STATUS"
      [] o \in {"StartPLTempSensor", "SamplePLTempSensor"} -> "TOPIC_THERMOCOUPLE_STATUS"
      [] o \in {"StartHygrometer", "SampleHygrometer"} -> "TOPIC_HYGROMETER_STATUS"
      [] OTHER -> "TOPIC_SYSTEM_STATUS"

\* the seven polling loops: position of the test after the loop, retry bound,
\* timeout text
Loops == {"baro_swreset", "baro_boot", "baro_oneshot", "baro_data",
          "hygro_boot", "hygro_oneshot", "hygro_data"}

CheckPc(l) ==
    CASE l = "baro_swreset" -> "sb_swreset_check"
      [] l = "baro_boot" -> "sb_boot_check"
      [] l = "baro_oneshot" -> "smb_oneshot_check"
      [] l = "baro_data" -> "smb_da_check"
      [] l = "hygro_boot" -> "sh_boot_check"
      [] l = "hygro_oneshot" -> "smh_oneshot_check"
      [] l = "hygro_data" -> "smh_da_check"

Retries(l) ==
    CASE l = "baro_swreset" -> BaroSwResetRetries
      [] l = "baro_boot" -> BaroBootRetries
      [] l = "baro_oneshot" -> BaroOneShotRetries
      [] l = "baro_data" -> BaroDataRetries
      [] l = "hygro_boot" -> HygroBootRetries
      [] l = "hygro_oneshot" -> HygroOneShotRetries
      [] l = "hygro_data" -> HygroDataRetries

TimeoutText(l) ==
    CASE l = "baro_swreset" -> "Barometer swreset timeout"
      [] l = "baro_boot" -> "Barometer boot timeout"
      [] l = "baro_oneshot" -> "Timed out waiting for BAROMETER_BFLD_ONE_SHOT"
      [] l = "baro_data" -> "Timed out waiting for P_DA and T_DA"
      [] l = "hygro_boot" -> "Hygrometer boot timeout"
      [] l = "hygro_oneshot" -> "Timed out waiting for HYGROMETER_BFLD_ONE_SHOT"
      [] l = "hygro_data" -> "Timed out waiting for HYGROMETER P_DA and T_DA"

\* the thermocouple fault bits in their priority order: word of the receive
\* buffer (1-based), mask, status text
FaultOrder ==
    << [word |-> 4, mask |-> 1, text |-> "Open Circuit"],
       [word |-> 4, mask |-> 2, text |-> "Short to GND"],
       [word |-> 4, mask |-> 4, text |-> "Short to VCC"],
       [word |-> 2, mask |-> 1, text |-> "Fault"] >>

SetFaults(rx) == {i \in DOMAIN FaultOrder : HasBit(rx[FaultOrder[i].word], FaultOrder[i].mask)}

FirstFault(rx) == CHOOSE i \in SetFaults(rx) : \A j \in SetFaults(rx) : i <= j

(***************************************************************************)
(* Properties                                                              *)
(***************************************************************************)

\* C1: per-sensor fault isolation.  A sample operation that was entered with
\* the result code an earlier operation left behind, and none of whose own bus
\* transfers went wrong and none of whose polling loops ran out, does not fail.
C1_FaultIsolation ==
    (op \in SampleOps /\ rcIn # XST_SUCCESS /\ ~hwFault /\ timedOut = "") => ~failed

\* C2: start-up abort.  Once a start-up step has failed and StopSystem has been
\* entered, the task is never stopped inside StopSystem short of vTaskDelete.
C2_StartupAbort ==
    pc \in {"stop_system", "stop_take", "stop_finish", "halted", "deleted"} => pc # "halted"

\* C3 as stated: in every sensor operation that failed, no bus transaction
\* follows the failure, the first message published on the operation's status
\* channel carries the failing result code, and the result code at return is
\* that code.
C3_DiagnosticCarriesCode ==
    /\ ~busAfterFail
    /\ (op \in IicOps \cup SampleOps /\ failed) =>
          /\ pSystem.rc = dieRc
          /\ pSystem.xMQTTHandle =>
                /\ pubs # <<>>
                /\ pubs[1].topic = StatusChannel(op)
                /\ pubs[1].vals = <<dieRc>>

\* C3 amended: as above for the barometer and hygrometer operations, whose
\* diagnostics pass the result code as the argument of the format; a failed
\* SamplePLTempSensor publishes the fixed text "SPI Transaction failure" with
\* no argument on the thermocouple status channel.
C3_AbortAndReport ==
    /\ ~busAfterFail
    /\ (op \in IicOps /\ failed) =>
          /\ pSystem.rc = dieRc
          /\ dieRc # XST_SUCCESS
          /\ pSystem.xMQTTHandle =>
                /\ pubs # <<>>
                /\ \A i \in DOMAIN pubs :
                      pubs[i].topic = StatusChannel(op) /\ pubs[i].vals = <<dieRc>>
    /\ (op = "SamplePLTempSensor" /\ failed) =>
          /\ pSystem.rc = dieRc
          /\ dieRc = XST_FAILURE
          /\ pSystem.xMQTTHandle =>
                /\ Len(pubs) = 1
                /\ pubs[1].topic = "TOPIC_THERMOCOUPLE_STATUS"
                /\ pubs[1].fmt = "SPI Transaction failure"
                /\ pubs[1].vals = <<>>

\* a barometer sample that a failed register access aborted, with the broker connected
C3_Witness ==
    /\ pc = "smb_ret" /\ op = "SampleBarometer" /\ failed /\ hwFault
    /\ pSystem.xMQTTHandle /\ Len(pubs) = 2

\* C4: a polling loop that ran out of retries makes its operation fail: past
\* the test that follows the loop, the result code is non-success, the loop's
\* timeout text has been published on the sensor's status channel and the
\* operation has been left.
C4_TimeoutAborts ==
    (timedOut \in Loops /\ pc # CheckPc(timedOut)) =>
       /\ failed
       /\ pSystem.rc # XST_SUCCESS
       /\ \E i \in DOMAIN pubs :
             pubs[i].topic = StatusChannel(op) /\ pubs[i].fmt = TimeoutText(timedOut)

\* C5: a polling loop that ran out of retries has made exactly its configured
\* number of status reads when the test after the loop is reached.
C5_ExactPollCount ==
    \A l \in Loops : (pc = CheckPc(l) /\ timedOut = l) => nPolls = Retries(l)

\* the hygrometer one-shot loop ran out after its 10000 reads
C5_Witness ==
    pc = "smh_oneshot_check" /\ timedOut = "hygro_oneshot" /\ nPolls = HygroOneShotRetries

\* C6: identity check.  Start goes on to the reset/boot write only when the
\* byte received from the identity register is the expected one.
C6_IdentityCheck ==
    /\ (pc = "sb_swreset" /\ ~hwFault) => b = <<BAROMETER_WHO_AM_I_VALUE>>
    /\ (pc = "sh_boot" /\ ~hwFault) => b = <<HYGROMETER_WHO_AM_I_VALUE>>

\* C7: register access all-or-fail.  Once a bus transfer of a barometer or
\* hygrometer operation has moved a byte count other than the requested one,
\* the result code is non-success.
C7_AllOrFail ==
    (op \in IicOps /\ hwFault) => pSystem.rc # XST_SUCCESS

\* C8: bus lock discipline.  Every XIic_Send and XIic_Recv of a step is made
\* while the task holds xIicSemaphore, and at the end of a step that made one
\* the semaphore is back and available.
C8_BusLock ==
    \A i \in DOMAIN ev :
       ev[i].k \in {"XIic_Send", "XIic_Recv"} =>
          ev[i].flag /\ ~holds /\ xIicSemaphore = "avail"

\* a register read whose receive failed has returned
C8_Witness ==
    /\ failed /\ hwFault /\ op \in IicOps
    /\ \E i \in DOMAIN ev : ev[i].k = "XIic_Recv"

\* C9: thermocouple fault priority.  After a successful transfer with at least
\* one fault bit set, exactly one message is published: the status text of the
\* first set bit in the order open circuit, short to ground, short to supply,
\* fault; no temperature is published.
C9_FaultPriority ==
    (pc = "spl_ret" /\ pSystem.rc = XST_SUCCESS /\ SetFaults(pqRxBuffer) # {}) =>
       /\ Len(pubs) = 1
       /\ pubs[1].topic = "TOPIC_THERMOCOUPLE_STATUS"
       /\ pubs[1].fmt = FaultOrder[FirstFault(pqRxBuffer)].text

\* a frame with all four fault bits set has been classified
C9_Witness ==
    /\ pc = "spl_ret" /\ pSystem.rc = XST_SUCCESS
    /\ SetFaults(pqRxBuffer) = DOMAIN FaultOrder
    /\ Len(pubs) = 1

\* C10: publish without a broker handle is a silent no-op.  While the handle is
\* NULL no call of prvPublishTopic reaches MQTT_AGENT_Publish or blinks the
\* LED, and nothing has been published.
C10_SilentNoOp ==
    ~pSystem.xMQTTHandle =>
       /\ pubs = <<>>
       /\ \A i \in DOMAIN ev :
             /\ ev[i].k = "prvPublishTopic" => (~ev[i].flag /\ ev[i].n = 0)
             /\ ev[i].k = "BlinkLed" => ev[i].n # 1

\* prvPublishTopic was called after the connection to the broker failed
C10_Witness ==
    /\ ~pSystem.xMQTTHandle
    /\ \E i \in DOMAIN ev : ev[i].k = "MQTT_AGENT_Connect"
    /\ \E i \in DOMAIN ev : ev[i].k = "prvPublishTopic"

\* C11: publish is fire-and-forget.  A call of prvPublishTopic with a broker
\* handle hands exactly one message to the broker; when the broker does not
\* report success the LED is blinked once and nothing is sent again; rc, pcErr,
\* eTopic and the rest of the System struct are as before the call, whatever
\* the broker returned, and the call returns.
C11_FireAndForget ==
    [][(pc = "call_prvPublishTopic" /\ pSystem.xMQTTHandle) =>
         /\ pc' = "ret_prvPublishTopic"
         /\ Len(pubs') = Len(pubs) + 1
         /\ pSystem' = pSystem
         /\ LET ret == pubs'[Len(pubs')].ret
                blinks == SelectSeq(ev', LAMBDA e : e.k = "BlinkLed")
            IN  IF ret = "eMQTTAgentSuccess" THEN blinks = <<>>
                ELSE Len(blinks) = 1 /\ blinks[1].n = 1]_vars

\* a publish that timed out has returned, with a failure code still in rc
C11_Witness ==
    /\ pc = "ret_prvPublishTopic" /\ pSystem.xMQTTHandle /\ pSystem.rc # XST_SUCCESS
    /\ Len(pubs) = 1 /\ pubs[1].ret = "eMQTTAgentTimeout"
    /\ \E i \in DOMAIN ev : ev[i].k = "BlinkLed" /\ ev[i].n = 1

\* C12: channel lookup.  GetTopicInfo returns to its caller only for an
\* identity that has an entry in pTopicInfo: for any other identity it halts.
C12_LookupHalts ==
    pc = "ret_GetTopicInfo" => \E i \in DOMAIN Topics : Topics[i] = ev[1].topic

\* the other half of C12: every identity handed to prvPublishTopic has an
\* entry in pTopicInfo
C12_PublishedIdentitiesKnown ==
    /\ \A i \in DOMAIN pubs : pubs[i].pTI # 0
    /\ \A i \in DOMAIN ev : ev[i].k = "prvPublishTopic" => GetTopicInfo(ev[i].topic) # 0

\* C13: sampling order.  Once vTaskDelayUntil has returned, SampleBarometer is
\* entered; when it returns, with or without a failure, SamplePLTempSensor is
\* entered; when that returns, with or without a failure, SampleHygrometer is
\* entered; and a sample operation is entered at no other point.
C13_SampleOrder ==
    [][/\ pc = "loop_delay" => (pc' = "smb_oneshot" /\ op' = op)
       /\ pc = "smb_oneshot" => op' = "SampleBarometer"
       /\ pc = "smb_ret" => op' = "SamplePLTempSensor"
       /\ pc = "spl_ret" => op' = "SampleHygrometer"
       /\ (op' \in SampleOps /\ op' # op) => pc \in {"smb_oneshot", "smb_ret", "spl_ret"}
       /\ (op \in SampleOps /\ op' # op) => op' \in SampleOps]_vars

\* SampleHygrometer was entered although the thermocouple sample of the same
\* period had failed
C13_Witness ==
    op = "SampleHygrometer" /\ rcIn # XST_SUCCESS

\* C14: start-up ordering.  The steps of StartSystem return in the order GPIO,
\* semaphore, bus configuration, bus start, broker connect, StartBarometer,
\* StartPLTempSensor, StartHygrometer, and none is taken after one that did
\* not succeed; a sensor start is entered only after every step before it,
\* the broker connect included, succeeded; "System started" is published only
\* after all three sensor starts returned success.
C14_StartOrder ==
    /\ Len(steps) <= Len(StartOrder)
    /\ \A i \in DOMAIN steps :
          /\ steps[i].step = StartOrder[i]
          /\ i < Len(steps) => steps[i].ok
    /\ \A i \in 6..8 :
          op = StartOrder[i] =>
             /\ Len(steps) >= i - 1
             /\ \A j \in 1..(i - 1) : steps[j].ok
             /\ pSystem.xMQTTHandle
    /\ (\E i \in DOMAIN ev : ev[i].k = "prvPublishTopic" /\ ev[i].fmt = "System started") =>
          steps = Returned(Len(StartOrder))

\* "System started" has just been handed to the broker
C14_Witness ==
    /\ pc = "loop_delay" /\ op = "StartHygrometer"
    /\ \E i \in DOMAIN ev : ev[i].k = "prvPublishTopic" /\ ev[i].fmt = "System started"
                                /\ ev[i].flag

\* C15: sampling only after a complete start-up.  A sample operation is entered,
\* and the sampling loop is at any of its positions, only when every step of
\* StartSystem returned success; once a step has failed the task is in
\* StopSystem or gone.
C15_SampleOnlyRunning ==
    /\ (op \in SampleOps \/ pc \in SamplingPcs) => steps = Returned(Len(StartOrder))
    /\ (\E i \in DOMAIN steps : ~steps[i].ok) =>
          (op \notin SampleOps /\ pc \in {"stop_system", "stop_take", "stop_finish",
                                           "halted", "deleted"})

\* a second sampling period has begun
C15_Witness ==
    pc = "smb_oneshot" /\ op = "SampleHygrometer" /\ steps = Returned(Len(StartOrder))

\* C16: barometer pressure decode round trip.  When SampleBarometer publishes
\* its readings, the pressure count it publishes (over 4096) is a value of -2^23..2^23-1,
\* negative exactly when bit 7 of the h byte is set, whose residue modulo 2^24
\* written as three little-endian bytes is the triple (xl, l, h) that was read.
C16_PressureRoundTrip ==
    [][(pc = "smb_da_check" /\ pc' = "smb_ret" /\ ~failed') =>
         LET c == pubs'[1].vals[1]
             u == c % 16777216
         IN  /\ pubs'[1].topic = "TOPIC_BAROMETER_PRESSURE"
             /\ pubs'[1].vals[2] = 4096
             /\ c \in (-8388608)..8388607
             /\ (c < 0) <=> (pbBuf[4] >= 128)
             /\ <<u % 256, (u \div 256) % 256, u \div 65536>> = <<pbBuf[2], pbBuf[3], pbBuf[4]>>]_vars

\* the most negative count, from the bytes (0, 0, 0x80), has been published
C16_Witness ==
    /\ pc = "smb_ret" /\ op = "SampleBarometer" /\ Len(pubs) = 2
    /\ pubs[1].topic = "TOPIC_BAROMETER_PRESSURE"
    /\ pubs[1].vals = <<-8388608, 4096>>

\* the integer that the low bits of u denote in two's complement of that width
TwosComplement(bits, u) == IF u >= 2 ^ (bits - 1) THEN u - 2 ^ bits ELSE u

\* C17: thermocouple bit reconstruction.  After a successful transfer of a
\* frame without a fault bit, the board temperature published is, in
\* sixteenths, the 12-bit two's-complement value of byte 2 and the top four
\* bits of byte 3, and the thermocouple temperature published is, in quarters,
\* the 14-bit two's-complement value of byte 0 and the top six bits of byte 1;
\* the frame 00 00 64 00 gives 1600 sixteenths.
C17_BitReconstruction ==
    (pc = "spl_ret" /\ pSystem.rc = XST_SUCCESS /\ SetFaults(pqRxBuffer) = {}) =>
       /\ Len(pubs) = 2
       /\ pubs[1].topic = "TOPIC_THERMOCOUPLE_BOARD_TEMPERATURE"
       /\ pubs[1].vals = <<TwosComplement(12, 16 * pqRxBuffer[3] + pqRxBuffer[4] \div 16), 16>>
       /\ pubs[2].topic = "TOPIC_THERMOCOUPLE_TEMPERATURE"
       /\ pubs[2].vals = <<TwosComplement(14, 64 * pqRxBuffer[1] + pqRxBuffer[2] \div 4), 4>>
       /\ pqRxBuffer = <<0, 0, 100, 0>> => pubs[1].vals = <<1600, 16>>

\* the frame 00 00 64 00 has been published as 1600 sixteenths
C17_Witness ==
    /\ pc = "spl_ret" /\ pSystem.rc = XST_SUCCESS /\ pqRxBuffer = <<0, 0, 100, 0>>
    /\ Len(pubs) = 2 /\ pubs[1].vals = <<1600, 16>> /\ pubs[2].vals = <<0, 4>>

\* C18: a sensor stop is idempotent and never faults.  Called once or twice in
\* a row, from any state (never started included), a sensor stop returns
\* having made no bus transaction, no publish and no blink; the System struct
\* is as before except that eTopic is that sensor's status channel (rc and
\* pcErr in particular are unchanged), and the semaphore is untouched.  The
\* outcome does not depend on how often the stop was called.
C18_StopIdempotent ==
    [][pc = "call_Stop" =>
         /\ pc' = "ret_Stop"
         /\ Len(ev') = 1
         /\ pubs' = pubs
         /\ pSystem' = [pSystem EXCEPT !.eTopic =
                           CASE ev'[1].k = "StopBarometer" -> "TOPIC_BAROMETER_STATUS"
                             [] ev'[1].k = "StopPLTempSensor" -> "TOPIC_THERMOCOUPLE_STATUS"
                             [] ev'[1].k = "StopHygrometer" -> "TOPIC_HYGROMETER_STATUS"]
         /\ xIicSemaphore' = xIicSemaphore
         /\ holds' = holds
         /\ ulCriticalNesting' = ulCriticalNesting]_vars

\* StopHygrometer was called twice on a system that never got a broker handle
\* and holds a failure code
C18_Witness ==
    /\ pc = "ret_Stop" /\ ev[1].k = "StopHygrometer" /\ ev[1].n = 2
    /\ ~pSystem.xMQTTHandle /\ pSystem.rc # XST_SUCCESS
    /\ pSystem.eTopic = "TOPIC_HYGROMETER_STATUS"

\* C19: calibration immutability.  pSystem.pbHygrometerCalibration is changed
\* only by the calibration read of StartHygrometer, the step that follows the
\* boot poll and is followed by the power-up write or by the return; until that
\* step the buffer is as the task found it, and no later step of any operation
\* changes it.
C19_CalibrationImmutable ==
    [][/\ pSystem'.pbHygrometerCalibration # pSystem.pbHygrometerCalibration =>
            /\ pc = "sh_calib" /\ op = "StartHygrometer"
            /\ pc' \in {"sh_pd", "sh_ret"}
            /\ \E i \in DOMAIN ev' : ev'[i].k = "XIic_Recv" /\ ev'[i].want = CalibrationLen
       /\ pc \in {"sh_whoami", "sh_boot", "sh_boot_poll", "sh_boot_check", "sh_calib"} =>
            pSystem.pbHygrometerCalibration = [n |-> 0, data |-> 0]]_vars

\* a sampling period has ended with the calibration block that StartHygrometer
\* read in full
C19_Witness ==
    /\ pc = "loop_delay" /\ op = "SampleHygrometer"
    /\ pSystem.pbHygrometerCalibration = [n |-> CalibrationLen, data |-> 2]

\* C20: a fault reported by the thermocouple is not a software error.  When
\* all four words were received and the frame has a fault bit set,
\* SamplePLTempSensor publishes one status text on the thermocouple status
\* channel and returns with rc = XST_SUCCESS and not failed; apart from rc the
\* System struct, the semaphore and the critical nesting are as they were
\* before the transfer, so the operations that follow see no trace of it.
C20_FaultIsNotError ==
    [][(pc = "spi_drain" /\ pc' = "spl_ret" /\ ~hwFault' /\ SetFaults(pqRxBuffer') # {}) =>
         /\ pSystem' = [pSystem EXCEPT !.rc = XST_SUCCESS]
         /\ ~failed'
         /\ Len(pubs') = 1
         /\ pubs'[1].topic = "TOPIC_THERMOCOUPLE_STATUS"
         /\ pubs'[1].fmt \in {FaultOrder[i].text : i \in DOMAIN FaultOrder}
         /\ xIicSemaphore' = xIicSemaphore
         /\ ulCriticalNesting' = ulCriticalNesting]_vars

\* the text "Fault" has been published after a complete transfer and the
\* operation returned with success
C20_Witness ==
    /\ pc = "spl_ret" /\ op = "SamplePLTempSensor" /\ ~hwFault
    /\ SetFaults(pqRxBuffer) # {}
    /\ Len(pubs) = 1 /\ pubs[1].fmt = "Fault"
    /\ pSystem.rc = XST_SUCCESS

\* C21: barometer start protocol.  When StartBarometer returns having
\* published "Barometer started", neither of its two polling loops ran out of
\* retries: the reset bit and the boot bit were both read back clear.
C21_StartedAfterBitsClear ==
    (pc = "sb_ret" /\ \E i \in DOMAIN pubs : pubs[i].fmt = "Barometer started") =>
       timedOut = ""

\* C22: multi-register addressing flag.  The address byte ReadIicRegs sends is
\* the register with 0x80 added exactly when more than one byte is asked for,
\* and the register itself for a single byte; pbBuf[0] as WriteIicRegs sends
\* it is the register with 0x80 added exactly when the buffer is longer than
\* two bytes, and the register itself otherwise.
C22_AddressFlag ==
    /\ pc = "ret_ReadIicRegs" =>
          LET reg == ev[1].vals[1]
              xCount == ev[1].vals[2]
          IN  ev[1].n = IF xCount > 1 THEN reg + 128 ELSE reg
    /\ pc = "ret_WriteIicRegs" =>
          LET reg == ev[1].vals[1]
              xCount == ev[1].vals[2]
          IN  ev[1].n = IF xCount > 2 THEN reg + 128 ELSE reg

\* a 16-byte read from register 0x30 was addressed with 0xB0
C22_Witness ==
    /\ pc = "ret_ReadIicRegs" /\ ev[1].vals = <<48, CalibrationLen>> /\ ev[1].n = 176
    /\ \E i \in DOMAIN ev : ev[i].k = "XIic_Recv" /\ ev[i].want = CalibrationLen

\* C23: the thermocouple transfer has no timeout.  The wait for transmit-empty
\* is left only by a status read that shows transmit-empty, the wait for the
\* receive occupancy only by a read that shows the byte count minus one, and
\* until then the task stays in the wait; SamplePLTempSensor returns only
\* through both, and then the last register writes of the transfer are the
\* inhibit of the controller followed by the deselect of all channels.
C23_NoTimeout ==
    LET last == ev[Len(ev)]
    IN  /\ pc = "spi_tx_wait" =>
              \/ (last.k = "XSpi_WriteReg" /\ last.fmt = "XSP_CR_OFFSET")
              \/ (last.k = "XSpi_ReadReg" /\ last.fmt = "XSP_SR_OFFSET" /\ ~last.flag)
        /\ pc = "spi_rfo_wait" =>
              \/ (last.k = "XSpi_ReadReg" /\ last.fmt = "XSP_SR_OFFSET" /\ last.flag)
              \/ (last.k = "XSpi_ReadReg" /\ last.fmt = "XSP_RFO_OFFSET"
                     /\ last.n # SpiByteCount - 1)
        /\ pc = "spi_drain" =>
              (last.k = "XSpi_ReadReg" /\ last.fmt = "XSP_RFO_OFFSET"
                 /\ last.n = SpiByteCount - 1)
        /\ pc = "spl_ret" =>
              /\ ev[1].k = "XSpi_ReadReg" /\ ev[1].fmt = "XSP_DRR_OFFSET"
              /\ ev[2].k = "XSpi_WriteReg" /\ ev[2].fmt = "XSP_CR_OFFSET"
              /\ ev[3].k = "XSpi_WriteReg" /\ ev[3].fmt = "XSP_SSR_OFFSET"
              /\ \A i \in 4..Len(ev) : ev[i].k \in {"prvPublishTopic", "BlinkLed"}

\* the task is still in the occupancy wait after a read that showed an empty
\* receive FIFO
C23_Witness ==
    /\ pc = "spi_rfo_wait" /\ op = "SamplePLTempSensor"
    /\ ev[1].k = "XSpi_ReadReg" /\ ev[1].fmt = "XSP_RFO_OFFSET" /\ ev[1].n = 0

\* C24 as stated: start-up liveness.  The first acquisition of the freshly
\* created bus semaphore returns, so that a start-up in which every step
\* succeeds reaches the sampling loop: whenever the task stands at the take of
\* line 1266, the take can complete.
C24_FirstTakeReturns ==
    pc = "sem_take" => CanTake(xIicSemaphore)

\* C25 as stated: a polling loop reports its timeout only if the polled
\* condition was not satisfied on any of its permitted polls: wherever a
\* loop's timeout text has been published after bus transfers that all moved
\* the requested byte counts, that loop ran out without seeing the condition.
C25_TimeoutOnlyIfNeverSatisfied ==
    \A l \in Loops : \A i \in DOMAIN pubs :
        (pubs[i].fmt = TimeoutText(l) /\ ~hwFault) => timedOut = l

\* C26 as stated: the outcome of a register read or write depends only on its
\* own bus transfers: a call of ReadIicRegs or WriteIicRegs whose transfers all
\* moved the requested byte counts returns success and publishes nothing,
\* whatever result code the System Context held at the call.
C26_OwnTransfersOnly ==
    (pc \in {"ret_ReadIicRegs", "ret_WriteIicRegs"} /\ ~hwFault) =>
       pSystem.rc = XST_SUCCESS /\ pubs = <<>>

\* C27 as stated: critical-section balance.  ReadIicRegs leaves the critical
\* nesting depth as it found it on every return path, so between register
\* reads of the task, whatever their number and outcome, the depth is zero.
C27_CriticalBalanced ==
    ulCriticalNesting = 0

\* C28 as stated: every acquisition of xIicSemaphore happens with the lock
\* free, the start-up abort path included: when teardown stands at its take
\* of the created semaphore (line 1337), the semaphore is available.
C28_TeardownTakesFreeLock ==
    (pc = "stop_take" /\ xIicSemaphore # "NULL") => xIicSemaphore = "avail"

\* C29: with a broker connection, a thermocouple sample that has returned
\* published either one message on the thermocouple status channel and no
\* measurement, or the board temperature followed by the thermocouple
\* temperature and no status message.
C29_StatusXorMeasurements ==
    (pc = "spl_ret" /\ pSystem.xMQTTHandle) =>
       \/ /\ Len(pubs) = 1
          /\ pubs[1].topic = "TOPIC_THERMOCOUPLE_STATUS"
          /\ pubs[1].fmt \in {"SPI Transaction failure"}
                               \cup {FaultOrder[i].text : i \in DOMAIN FaultOrder}
          /\ hwFault \/ SetFaults(pqRxBuffer) # {}
       \/ /\ Len(pubs) = 2
          /\ pubs[1].topic = "TOPIC_THERMOCOUPLE_BOARD_TEMPERATURE"
          /\ pubs[2].topic = "TOPIC_THERMOCOUPLE_TEMPERATURE"
          /\ ~hwFault /\ SetFaults(pqRxBuffer) = {}

\* a complete frame without fault bits has been published as two measurements
C29_Witness ==
    /\ pc = "spl_ret" /\ op = "SamplePLTempSensor" /\ pSystem.xMQTTHandle
    /\ ~hwFault /\ SetFaults(pqRxBuffer) = {}
    /\ Len(pubs) = 2 /\ pubs[2].topic = "TOPIC_THERMOCOUPLE_TEMPERATURE"

\* C30 as stated: a barometer sample publishes its measurements only when the
\* most recent block read of the call had both data-ready bits set and no
\* sub-step failed: where SampleBarometer has returned with a measurement
\* published, every block read of its data loop moved the bytes asked for, so
\* that the published values were decoded from bytes the sensor sent.
C30_MeasurementsFromReadBlock ==
    (pc = "smb_ret"
       /\ \E i \in DOMAIN pubs : pubs[i].topic = "TOPIC_BAROMETER_PRESSURE") =>
       ~hwFault

====
